---- MODULE Spec2Model ----
(***************************************************************************)
(* A model of the X-ray absorption workflows of aiida-quantumespresso:     *)
(* the outline of XspectraBaseWorkChain (SCF, core wavefunction            *)
(* extraction, the Lanczos production loop with its restarts, the replot   *)
(* stage and the results step) and the calcfunctions that combine spectra. *)
(*                                                                         *)
(* Strings are sequences of one-character strings, so that the labels the  *)
(* work chain formats and splits again are formatted and split here too.   *)
(***************************************************************************)
EXTENDS Integers, Sequences, FiniteSets, TLC

VARIABLES
    inputs,     \* the inputs of the work chain
    pc,         \* the step of the outline that runs next
    ctx,        \* self.ctx
    calcs,      \* the processes submitted so far; a process's pk is its index
    out,        \* the outputs attached with self.out
    reports,    \* the warnings passed to self.report
    exit_code,  \* how the work chain ended
    powder_in,  \* the keyword arguments of a get_powder_spectrum call
    powder_out  \* what that call returned

vars == <<inputs, pc, ctx, calcs, out, reports, exit_code, powder_in, powder_out>>

wf_vars == <<inputs, pc, ctx, calcs, out, reports, exit_code>>

fn_vars == <<powder_in, powder_out>>

----------------------------------------------------------------------------
(* Bounds of the model. *)

\* eps_vectors holds at most this many vectors.
MaxVectors == 2

\* A production job times out at most this many times in a row.
MaxTimeouts == 2

\* The y values of a spectrum are drawn from 0..MaxY.
MaxY == 1

\* The number of points of an energy grid.
GridLen == 2

----------------------------------------------------------------------------
(* Values. *)

\* A variable of the model that holds nothing yet.
NULL == "None"

\* exit status 400: the job ran out of walltime
ERROR_OUT_OF_WALLTIME == 400

\* any other failure of xspectra.x, here ERROR_OUTPUT_STDOUT_INCOMPLETE
ERROR_OUTPUT_STDOUT_INCOMPLETE == 312

EpsA == <<1, 0, 0>>

EpsB == <<0, 1, 0>>

EpsC == <<0, 0, 1>>

EpsDiag == <<1, 1, 0>>

Vectors == {EpsA, EpsB, EpsC, EpsDiag}

\* d[k] = v on a dictionary (or an attribute of self.ctx)
Put(d, k, v) == (k :> v) @@ d

Has(d, k) == k \in DOMAIN d

EmptyDict == [k \in {} |-> 0]

----------------------------------------------------------------------------
(* Strings: str(), int(), str.split, str.replace and f-strings. *)

\* The value of Op(v): v is evaluated once, whatever Op does with it.
Apply(Op(_), v) == CHOOSE r \in {Op(x) : x \in {v}} : TRUE

Digits == <<"0", "1", "2", "3", "4", "5", "6", "7", "8", "9">>

RECURSIVE Str(_)
Str(n) ==
    IF n < 10 THEN <<Digits[n + 1]>>
    ELSE Str(n \div 10) \o <<Digits[(n % 10) + 1]>>

DigitValue(c) == CHOOSE d \in 0..9 : Digits[d + 1] = c

\* int(s) for a string of decimal digits
ParseInt(str) ==
    LET parsed(s) ==
            LET value[i \in 0..Len(s)] ==
                    IF i = 0 THEN 0 ELSE (10 * value[i - 1]) + DigitValue(s[i])
            IN value[Len(s)]
    IN Apply(parsed, str)

\* s.split(sep) for a one-character separator: the pieces between the
\* occurrences of sep, the empty ones included
Split(str, sep) ==
    LET pieces(s) ==
            LET at == {i \in 1..Len(s) : s[i] = sep}
                \* the position of the k-th separator; 0 and Len(s) + 1 bound s
                cut(k) == IF k = 0 THEN 0
                          ELSE IF k > Cardinality(at) THEN Len(s) + 1
                          ELSE CHOOSE i \in at : Cardinality({j \in at : j < i}) = k - 1
            IN [k \in 1..(Cardinality(at) + 1) |->
                   SubSeq(s, cut(k - 1) + 1, cut(k) - 1)]
    IN Apply(pieces, str)

\* s.replace(old, new) for a non-empty old: the occurrences of old are
\* replaced from the left, without overlap
Replace(str, old, new) ==
    LET replaced(s) ==
            LET matches(i) == /\ i + Len(old) - 1 <= Len(s)
                              /\ SubSeq(s, i, i + Len(old) - 1) = old
                from[i \in 1..(Len(s) + 1)] ==
                    IF i > Len(s) THEN <<>>
                    ELSE IF matches(i) THEN new \o from[i + Len(old)]
                    ELSE <<s[i]>> \o from[i + 1]
            IN from[1]
    IN Apply(replaced, str)

Us == <<"_">>

S_xas == <<"x", "a", "s">>

S_prod == <<"p", "r", "o", "d">>

S_plot == <<"p", "l", "o", "t">>

S_iter == <<"i", "t", "e", "r">>

S_scf == <<"s", "c", "f">>

S_upf2plotcore == <<"u", "p", "f", "2", "p", "l", "o", "t", "c", "o", "r", "e">>

\* f'xas_prod_{calc_number}'
ProdLabel(calc_number) == S_xas \o Us \o S_prod \o Us \o Str(calc_number)

\* f'{label}_iter_{iteration}'
IterLabel(label, iteration) == label \o Us \o S_iter \o Us \o Str(iteration)

\* f'{pieces[0]}_{pieces[1]}_{pieces[2]}'
FirstThree(pieces) ==
    LET joined(p) == p[1] \o Us \o p[2] \o Us \o p[3]
    IN Apply(joined, pieces)

\* f'{label}_plot'
PlotKey(label) == label \o Us \o S_plot

----------------------------------------------------------------------------
(* Processes. *)

\* A submitted process: its inputs; the engine ends it later.
Calc(process, label, xepsilon, restart_mode, parent_folder, core_wfc_data) ==
    [process |-> process, label |-> label, xepsilon |-> xepsilon,
     restart_mode |-> restart_mode, parent_folder |-> parent_folder,
     core_wfc_data |-> core_wfc_data,
     process_state |-> "waiting", exit_status |-> 0]

is_finished(calc) == calc.process_state = "finished"

is_finished_ok(calc) == is_finished(calc) /\ calc.exit_status = 0

\* calc.res['epsilon_vector']: the parser reports the vector of the input
epsilon_vector(calc) == calc.xepsilon

\* A step that follows a ToContext runs when the awaited processes have ended.
AllTerminated == \A pk \in 1..Len(calcs) : is_finished(calcs[pk])

\* The pk of the i-th process submitted by the running step.
NewPk(i) == Len(calcs) + i

\* ToContext(**futures): futures[keys[i]] is the i-th process submitted.
ToContext(nodes, keys) ==
    LET new == {keys[i] : i \in 1..Len(keys)}
        last(k) == CHOOSE i \in 1..Len(keys) :
                       keys[i] = k /\ \A j \in (i + 1)..Len(keys) : keys[j] # k
    IN [k \in (DOMAIN nodes) \cup new |->
           IF k \in DOMAIN nodes /\ k \notin new THEN nodes[k] ELSE NewPk(last(k))]

----------------------------------------------------------------------------
(* The outline of XspectraBaseWorkChain. *)

\* The lists of one to MaxVectors polarization vectors, each named once
\* (validate_inputs rejects the empty list).
EpsVectorLists ==
    {list \in UNION {[1..n -> Vectors] : n \in 1..MaxVectors} :
        \A i, j \in DOMAIN list : list[i] = list[j] => i = j}

Inputs ==
    [eps_vectors : EpsVectorLists, collect_powder : BOOLEAN,
     has_core_wfc_data : BOOLEAN]

\* Returning an exit code from a step ends the work chain.
Terminate(code) ==
    /\ pc' = "terminated"
    /\ exit_code' = code

setup ==
    /\ pc = "setup"
    /\ ctx' = Put(Put(Put(ctx, "all_lanczos_computed", FALSE),
                      "lanczos_to_restart", <<>>),
                  "finished_lanczos", <<>>)
    /\ pc' = "run_scf"
    /\ UNCHANGED <<inputs, calcs, out, reports, exit_code, fn_vars>>

\* A loop with a ceiling: it ends after the first round of restarts
should_repeat_xs_prod_OneRestartAtMost ==
    /\ ~ctx.all_lanczos_computed
    /\ \A pk \in 1..Len(calcs) : calcs[pk].restart_mode # "restart"

should_repeat_xs_prod == ~ctx.all_lanczos_computed

run_scf ==
    /\ pc = "run_scf"
    /\ calcs' = calcs \o <<Calc("scf", S_scf, <<>>, NULL, 0, NULL)>>
    /\ ctx' = Put(ctx, "scf_workchain", NewPk(1))
    /\ pc' = "inspect_scf"
    /\ UNCHANGED <<inputs, out, reports, exit_code, fn_vars>>

\* inspect_scf without the test of the SCF work chain
inspect_scf_IgnoresFailure ==
    /\ pc = "inspect_scf"
    /\ AllTerminated
    /\ ctx' = Put(ctx, "scf_parent_folder", ctx.scf_workchain)
    /\ pc' = "if_should_run_upf2plotcore"
    /\ UNCHANGED <<inputs, calcs, out, reports, exit_code, fn_vars>>

inspect_scf ==
    /\ pc = "inspect_scf"
    /\ AllTerminated
    /\ IF ~is_finished_ok(calcs[ctx.scf_workchain])
       THEN /\ Terminate("ERROR_SUB_PROCESS_FAILED_SCF")
            /\ UNCHANGED ctx
       ELSE /\ ctx' = Put(ctx, "scf_parent_folder", ctx.scf_workchain)
            /\ pc' = "if_should_run_upf2plotcore"
            /\ UNCHANGED exit_code
    /\ UNCHANGED <<inputs, calcs, out, reports, fn_vars>>

should_run_upf2plotcore == ~inputs.has_core_wfc_data

if_should_run_upf2plotcore ==
    /\ pc = "if_should_run_upf2plotcore"
    /\ pc' = IF should_run_upf2plotcore THEN "run_upf2plotcore"
             ELSE "while_should_repeat_xs_prod"
    /\ UNCHANGED <<inputs, ctx, calcs, out, reports, exit_code, fn_vars>>

run_upf2plotcore ==
    /\ pc = "run_upf2plotcore"
    /\ calcs' = calcs \o
           <<Calc("upf2plotcore", S_upf2plotcore, <<>>, NULL, 0, NULL)>>
    /\ ctx' = Put(ctx, "upf2plotcore_node", NewPk(1))
    /\ pc' = "while_should_repeat_xs_prod"
    /\ UNCHANGED <<inputs, out, reports, exit_code, fn_vars>>

while_should_repeat_xs_prod ==
    /\ pc = "while_should_repeat_xs_prod"
    /\ AllTerminated
    /\ pc' = IF should_repeat_xs_prod THEN "run_all_xspectra_prod"
             ELSE "run_all_xspectra_plot"
    /\ UNCHANGED <<inputs, ctx, calcs, out, reports, exit_code, fn_vars>>

\* The core wavefunction data handed to the xspectra.x jobs.
CoreWfcData ==
    IF inputs.has_core_wfc_data THEN "inputs.core_wfc_data"
    ELSE "upf2plotcore_node.outputs.stdout"

\* FirstPassJob numbering the vectors from 1 in the labels
FirstPassJob_CountsFromOne(calc_number) ==
    Calc("xs_prod", IterLabel(ProdLabel(calc_number + 1), 1),
         inputs.eps_vectors[calc_number + 1], NULL,
         ctx.scf_parent_folder, CoreWfcData)

\* The job of the first pass for the vector at position calc_number.
FirstPassJob(calc_number) ==
    Calc("xs_prod", IterLabel(ProdLabel(calc_number), 1),
         inputs.eps_vectors[calc_number + 1], NULL,
         ctx.scf_parent_folder, CoreWfcData)

\* RestartJob without restart_mode = 'restart'.
RestartJob_NoRestartMode(pk) ==
    LET calculation == calcs[pk]
        parent_label_pieces == Split(calculation.label, "_")
        iteration == ParseInt(parent_label_pieces[Len(parent_label_pieces)]) + 1
        label == FirstThree(parent_label_pieces)
    IN Calc("xs_prod", IterLabel(label, iteration), calculation.xepsilon,
            calculation.restart_mode, pk, CoreWfcData)

\* RestartJob reading the SCF folder again instead of the folder of the
\* attempt it restarts
RestartJob_FromScfFolder(pk) ==
    LET calculation == calcs[pk]
        parent_label_pieces == Split(calculation.label, "_")
        iteration == ParseInt(parent_label_pieces[Len(parent_label_pieces)]) + 1
        label == FirstThree(parent_label_pieces)
    IN Calc("xs_prod", IterLabel(label, iteration), calculation.xepsilon,
            "restart", ctx.scf_parent_folder, CoreWfcData)

\* RestartJob reading the last character of the label as the iteration
RestartJob_IterationFromLastDigit(pk) ==
    LET calculation == calcs[pk]
        parent_label_pieces == Split(calculation.label, "_")
        iteration == DigitValue(calculation.label[Len(calculation.label)]) + 1
        label == FirstThree(parent_label_pieces)
    IN Calc("xs_prod", IterLabel(label, iteration), calculation.xepsilon,
            "restart", pk, CoreWfcData)

\* The job that restarts the timed out job `pk`.
RestartJob(pk) ==
    LET calculation == calcs[pk]
        parent_label_pieces == Split(calculation.label, "_")
        iteration == ParseInt(parent_label_pieces[Len(parent_label_pieces)]) + 1
        label == FirstThree(parent_label_pieces)
    IN Calc("xs_prod", IterLabel(label, iteration), calculation.xepsilon,
            "restart", pk, CoreWfcData)

\* The label of a job without its iteration: 'xas_prod_<k>'.
SequenceLabel(calc) == FirstThree(Split(calc.label, "_"))

\* A round of restarts that also submits every vector afresh
ProdJobs_FreshVectorsAgain ==
    [i \in 1..Len(inputs.eps_vectors) |-> FirstPassJob(i - 1)] \o
    [i \in 1..Len(ctx.lanczos_to_restart) |->
        RestartJob(ctx.lanczos_to_restart[i])]

\* The jobs one call of run_all_xspectra_prod submits, in order: the first
\* pass when no restart was ordered yet, the restarts otherwise.
ProdJobs ==
    IF Len(ctx.lanczos_to_restart) = 0
    THEN [i \in 1..Len(inputs.eps_vectors) |-> FirstPassJob(i - 1)]
    ELSE [i \in 1..Len(ctx.lanczos_to_restart) |->
             RestartJob(ctx.lanczos_to_restart[i])]

run_all_xspectra_prod ==
    /\ pc = "run_all_xspectra_prod"
    /\ \E new \in {ProdJobs} :
       \E xspectra_calc_labels \in {[i \in 1..Len(new) |-> SequenceLabel(new[i])]} :
          /\ calcs' = calcs \o new
          /\ ctx' = Put(Put(ctx, "xspectra_calc_labels", xspectra_calc_labels),
                        "nodes", ToContext(ctx.nodes, xspectra_calc_labels))
    /\ pc' = "inspect_all_xspectra_prod"
    /\ UNCHANGED <<inputs, out, reports, exit_code, fn_vars>>

\* ProdOutcome without the test for exit status 400: any failure restarts.
ProdOutcome_AnyFailureRestarts(calculation) ==
    IF is_finished_ok(calculation) THEN "accept" ELSE "restart"

\* ProdOutcome taking a job that ran out of walltime for a finished one.
ProdOutcome_TimeoutAccepted(calculation) ==
    IF is_finished_ok(calculation) \/ calculation.exit_status = ERROR_OUT_OF_WALLTIME
    THEN "accept"
    ELSE "fail"

\* A restart policy with a ceiling: the second timeout of a job is fatal
ProdOutcome_RetriesCapped(calculation) ==
    IF is_finished_ok(calculation) THEN "accept"
    ELSE IF /\ calculation.exit_status = ERROR_OUT_OF_WALLTIME
            /\ ParseInt(Split(calculation.label, "_")[5]) < 2
    THEN "restart"
    ELSE "fail"

\* What inspect_all_xspectra_prod decides for one job from its exit status.
ProdOutcome(calculation) ==
    IF is_finished_ok(calculation) THEN "accept"
    ELSE IF calculation.exit_status = ERROR_OUT_OF_WALLTIME THEN "restart"
    ELSE "fail"

\* InspectProdLoop without the return at a failed job: the loop goes on.
RECURSIVE InspectProdLoop_NoReturn(_, _, _)
InspectProdLoop_NoReturn(calculations, i, acc) ==
    IF i > Len(calculations) THEN acc
    ELSE LET calculation == calcs[calculations[i]]
         IN CASE is_finished_ok(calculation) ->
                   InspectProdLoop_NoReturn(calculations, i + 1,
                       [acc EXCEPT !.finished_lanczos = Append(@, calculations[i])])
              [] calculation.exit_status = ERROR_OUT_OF_WALLTIME ->
                   InspectProdLoop_NoReturn(calculations, i + 1,
                       [acc EXCEPT !.lanczos_to_restart = Append(@, calculations[i]),
                                   !.restarts_required = TRUE])
              [] OTHER ->
                   InspectProdLoop_NoReturn(calculations, i + 1, acc)

\* The loop of inspect_all_xspectra_prod over calculations[i..]: it returns
\* at the first job that failed for another reason than the walltime.
RECURSIVE InspectProdLoop(_, _, _)
InspectProdLoop(calculations, i, acc) ==
    IF i > Len(calculations) THEN acc
    ELSE LET outcome == ProdOutcome(calcs[calculations[i]])
         IN CASE outcome = "fail" ->
                   [acc EXCEPT !.returned = "ERROR_SUB_PROCESS_FAILED_XSPECTRA"]
              [] outcome = "restart" ->
                   InspectProdLoop(calculations, i + 1,
                       [acc EXCEPT !.lanczos_to_restart = Append(@, calculations[i]),
                                   !.restarts_required = TRUE])
              [] OTHER ->
                   InspectProdLoop(calculations, i + 1,
                       [acc EXCEPT !.finished_lanczos = Append(@, calculations[i])])

inspect_all_xspectra_prod ==
    /\ pc = "inspect_all_xspectra_prod"
    /\ AllTerminated
    /\ LET labels == ctx.xspectra_calc_labels
           calculations == [i \in 1..Len(labels) |-> ctx.nodes[labels[i]]]
           res == InspectProdLoop(calculations, 1,
                      [returned |-> NULL, restarts_required |-> FALSE,
                       lanczos_to_restart |-> <<>>,
                       finished_lanczos |-> ctx.finished_lanczos])
           appended == Put(ctx, "finished_lanczos", res.finished_lanczos)
       IN IF res.returned # NULL
          THEN /\ ctx' = appended
               /\ Terminate(res.returned)
          ELSE /\ ctx' = IF res.restarts_required
                         THEN Put(appended, "lanczos_to_restart", res.lanczos_to_restart)
                         ELSE Put(appended, "all_lanczos_computed", TRUE)
               /\ pc' = "while_should_repeat_xs_prod"
               /\ UNCHANGED exit_code
    /\ UNCHANGED <<inputs, calcs, out, reports, fn_vars>>

\* ReplotJob run in the folder of the SCF rather than in the folder of the
\* accepted job
ReplotJob_FromScfFolder(pk) ==
    LET parent_xspectra == calcs[pk]
        label == FirstThree(Split(parent_xspectra.label, "_"))
    IN Calc("xs_plot", Replace(label, S_prod, S_plot),
            epsilon_vector(parent_xspectra), NULL, ctx.scf_parent_folder,
            CoreWfcData)

\* The replot job of the accepted production job `pk`.
ReplotJob(pk) ==
    LET parent_xspectra == calcs[pk]
        label == FirstThree(Split(parent_xspectra.label, "_"))
    IN Calc("xs_plot", Replace(label, S_prod, S_plot),
            epsilon_vector(parent_xspectra), NULL, pk, CoreWfcData)

\* run_all_xspectra_plot emptying the restart list it finds
run_all_xspectra_plot_ClearsRestartList ==
    /\ pc = "run_all_xspectra_plot"
    /\ \E new \in {[i \in 1..Len(ctx.finished_lanczos) |->
                        ReplotJob(ctx.finished_lanczos[i])]} :
       \E keys \in {[i \in 1..Len(new) |->
                        PlotKey(SequenceLabel(calcs[ctx.finished_lanczos[i]]))]} :
          /\ calcs' = calcs \o new
          /\ ctx' = Put(Put(ctx, "nodes", ToContext(ctx.nodes, keys)),
                        "lanczos_to_restart", <<>>)
    /\ pc' = "inspect_all_xspectra_plot"
    /\ UNCHANGED <<inputs, out, reports, exit_code, fn_vars>>

run_all_xspectra_plot ==
    /\ pc = "run_all_xspectra_plot"
    /\ \E new \in {[i \in 1..Len(ctx.finished_lanczos) |->
                        ReplotJob(ctx.finished_lanczos[i])]} :
       \E keys \in {[i \in 1..Len(new) |->
                        PlotKey(SequenceLabel(calcs[ctx.finished_lanczos[i]]))]} :
          /\ calcs' = calcs \o new
          /\ ctx' = Put(ctx, "nodes", ToContext(ctx.nodes, keys))
    /\ pc' = "inspect_all_xspectra_plot"
    /\ UNCHANGED <<inputs, out, reports, exit_code, fn_vars>>

\* The replot jobs inspect_all_xspectra_plot looks at.
InspectedReplots ==
    LET labels == ctx.xspectra_calc_labels
    IN [i \in 1..Len(labels) |-> ctx.nodes[PlotKey(labels[i])]]

inspect_all_xspectra_plot ==
    /\ pc = "inspect_all_xspectra_plot"
    /\ AllTerminated
    /\ LET calculations == InspectedReplots
           unrecoverable_failures ==
               \E i \in 1..Len(calculations) : ~is_finished_ok(calcs[calculations[i]])
           finished_replots ==
               SelectSeq(calculations, LAMBDA c : is_finished_ok(calcs[c]))
       IN IF unrecoverable_failures
          THEN /\ Terminate("ERROR_SUB_PROCESS_FAILED_XSPECTRA")
               /\ UNCHANGED ctx
          ELSE /\ ctx' = Put(ctx, "finished_replots", finished_replots)
               /\ pc' = "results"
               /\ UNCHANGED exit_code
    /\ UNCHANGED <<inputs, calcs, out, reports, fn_vars>>

----------------------------------------------------------------------------
(* Spectra and the calcfunctions that combine them.  The y values of the   *)
(* solver are integers here and a quotient is the exact fraction           *)
(* <<numerator, denominator>> in lowest terms.                             *)

RECURSIVE GCD(_, _)
GCD(a, b) == IF b = 0 THEN a ELSE GCD(b, a % b)

\* n / d
Div(n, d) == LET g == GCD(n, d) IN IF n = 0 THEN <<0, 1>> ELSE <<n \div g, d \div g>>

XyData(x, x_name, x_units, y, y_name, y_units) ==
    [raised |-> "", x |-> x, x_name |-> x_name, x_units |-> x_units,
     y |-> y, y_name |-> y_name, y_units |-> y_units]

\* A calcfunction that raised instead of returning a node.
Raised(exception) ==
    [raised |-> exception, x |-> <<>>, x_name |-> "", x_units |-> "",
     y |-> <<>>, y_name |-> "", y_units |-> ""]

\* The keyword arguments without 'metadata'.
WithoutMetadata(kwargs) ==
    [label \in (DOMAIN kwargs) \ {"metadata"} |-> kwargs[label]]

\* len(spectra) == 1
PowderIsochoric(spectra) ==
    LET powder_spectrum == spectra[CHOOSE label \in DOMAIN spectra : TRUE]
    IN XyData(powder_spectrum.x, "energy", "eV", powder_spectrum.y, "sigma", "n/a")

\* DichoricAverage with the weights of the two axes exchanged.
DichoricAverage_WeightsExchanged(yvals_a, yvals_c) ==
    [i \in DOMAIN yvals_a |-> Div(yvals_a[i] + (yvals_c[i] * 2), 3)]

\* ((yvals_a * 2) + yvals_c) / 3
DichoricAverage(yvals_a, yvals_c) ==
    [i \in DOMAIN yvals_a |-> Div((yvals_a[i] * 2) + yvals_c[i], 3)]

\* len(spectra) == 2: the loop binds spectrum_a to the spectrum labelled
\* eps_100 or eps_010 and spectrum_c to the one labelled eps_001; a name
\* the loop left unbound raises when it is read.
PowderDichoric(spectra) ==
    LET labels_a == (DOMAIN spectra) \cap {"eps_100", "eps_010"}
    IN IF labels_a = {} \/ "eps_001" \notin DOMAIN spectra
       THEN Raised("UnboundLocalError")
       ELSE LET spectrum_a == spectra[CHOOSE label \in labels_a : TRUE]
                spectrum_c == spectra["eps_001"]
            IN XyData(spectrum_a.x, "energy", "eV",
                      DichoricAverage(spectrum_a.y, spectrum_c.y), "sigma", "n/a")

\* (yvals_a + yvals_b + yvals_c) / 3
TrichoricAverage(yvals_a, yvals_b, yvals_c) ==
    [i \in DOMAIN yvals_a |-> Div(yvals_a[i] + yvals_b[i] + yvals_c[i], 3)]

\* len(spectra) == 3
PowderTrichoric(spectra) ==
    IF {"eps_100", "eps_010", "eps_001"} \subseteq DOMAIN spectra
    THEN XyData(spectra["eps_100"].x, "energy", "eV",
                TrichoricAverage(spectra["eps_100"].y, spectra["eps_010"].y,
                                 spectra["eps_001"].y),
                "sigma", "n/a")
    ELSE Raised("KeyError")

get_powder_spectrum(kwargs) ==
    LET spectra == WithoutMetadata(kwargs)
        n == Cardinality(DOMAIN spectra)
    IN CASE n = 1 -> PowderIsochoric(spectra)
         [] n = 2 -> PowderDichoric(spectra)
         [] n = 3 -> PowderTrichoric(spectra)
         [] OTHER -> Raised("UnboundLocalError")

\* The spectrum xspectra.x writes for a polarization vector: the engine
\* attaches it to a replot job as outputs.spectra.
SolverSpectrum(vector) ==
    XyData([i \in 1..GridLen |-> i], "energy", "eV",
           [i \in 1..GridLen |-> vector[1] + (2 * vector[2]) + (i * vector[3])],
           "sigma", "Mbarn")

\* get_all_spectra over the replot jobs `plot_calcs`: one y array and one
\* label sigma_<vector> for each, on the x array of the last one.
get_all_spectra(plot_calcs) ==
    IF Len(plot_calcs) = 0 THEN Raised("UnboundLocalError")
    ELSE LET spectrum(i) == SolverSpectrum(epsilon_vector(calcs[plot_calcs[i]]))
         IN XyData(spectrum(Len(plot_calcs)).x, "energy", "eV",
                   [i \in 1..Len(plot_calcs) |-> spectrum(i).y],
                   [i \in 1..Len(plot_calcs) |-> epsilon_vector(calcs[plot_calcs[i]])],
                   [i \in 1..Len(plot_calcs) |-> spectrum(i).y_units])

----------------------------------------------------------------------------
(* The results step. *)

eps_powder_vectors == {EpsA, EpsB, EpsC}

\* The dictionary the loop over the replot jobs fills: for each basis vector
\* the spectrum of the last replot job whose parent job computed it.
EpsBasisCalcs(xspectra_plot_calcs) ==
    LET parent_vector(i) ==
            epsilon_vector(calcs[calcs[xspectra_plot_calcs[i]].parent_folder])
        label_of(vector) == CASE vector = EpsA -> "eps_100"
                              [] vector = EpsB -> "eps_010"
                              [] vector = EpsC -> "eps_001"
        present == {parent_vector(i) : i \in 1..Len(xspectra_plot_calcs)}
                       \cap eps_powder_vectors
        spectrum_for(vector) ==
            LET i == CHOOSE j \in 1..Len(xspectra_plot_calcs) :
                         /\ parent_vector(j) = vector
                         /\ \A k \in (j + 1)..Len(xspectra_plot_calcs) :
                                parent_vector(k) # vector
            IN SolverSpectrum(epsilon_vector(calcs[xspectra_plot_calcs[i]]))
    IN [label \in {label_of(v) : v \in present} |->
           spectrum_for(CHOOSE v \in present : label_of(v) = label)]

\* What the powder part of results does: the warnings it reports, the powder
\* spectrum it attaches and the exception it raises, if any.
PowderStep ==
    LET xspectra_prod_calcs == ctx.finished_lanczos
        xspectra_plot_calcs == ctx.finished_replots
        should_collect_powder == FALSE
        \* basis_vectors_present is assigned (True) in the loop only
        basis_vectors_present_bound ==
            \E i \in 1..Len(xspectra_prod_calcs) :
                epsilon_vector(calcs[xspectra_prod_calcs[i]]) \in eps_powder_vectors
        basis_vectors_present == TRUE
        eps_basis_calcs == EpsBasisCalcs(xspectra_plot_calcs)
        a_vector_present == Has(eps_basis_calcs, "eps_100")
        b_vector_present == Has(eps_basis_calcs, "eps_010")
        c_vector_present == Has(eps_basis_calcs, "eps_001")
        powder_spectrum ==
            get_powder_spectrum(
                Put(eps_basis_calcs, "metadata", [call_link_label |-> "compile_powder"]))
        nothing == [raised |-> "", reports |-> {}, powder |-> <<>>]
    IN IF inputs.collect_powder /\ should_collect_powder
       THEN IF a_vector_present /\ b_vector_present /\ ~c_vector_present
            THEN [nothing EXCEPT !.reports = {"missing_c_vector"}]
            ELSE IF powder_spectrum.raised # ""
                 THEN [nothing EXCEPT !.raised = powder_spectrum.raised]
                 ELSE [nothing EXCEPT !.powder = <<powder_spectrum>>]
       ELSE IF inputs.collect_powder
            THEN IF ~basis_vectors_present_bound
                 THEN [nothing EXCEPT !.raised = "UnboundLocalError"]
                 ELSE IF ~basis_vectors_present
                      THEN [nothing EXCEPT !.reports = {"no_suitable_vectors"}]
                      ELSE nothing
            ELSE nothing

\* output_parameters_xspectra: the accepted job of each sequence label.
XspectraProdParams(xspectra_prod_calcs) ==
    LET label(i) ==
            LET pieces == Split(calcs[xspectra_prod_calcs[i]].label, "_")
            IN FirstThree(SubSeq(pieces, 1, Len(pieces) - 2))
        last(l) == CHOOSE i \in 1..Len(xspectra_prod_calcs) :
                       /\ label(i) = l
                       /\ \A j \in (i + 1)..Len(xspectra_prod_calcs) : label(j) # l
    IN [l \in {label(i) : i \in 1..Len(xspectra_prod_calcs)} |->
           xspectra_prod_calcs[last(l)]]

results ==
    /\ pc = "results"
    /\ LET powder == PowderStep
           output_spectra == get_all_spectra(ctx.finished_replots)
           with_powder == IF Len(powder.powder) = 0 THEN out
                          ELSE Put(out, "powder_spectrum", powder.powder[1])
           with_params ==
               Put(Put(with_powder, "output_parameters_scf", ctx.scf_workchain),
                   "output_parameters_xspectra",
                   XspectraProdParams(ctx.finished_lanczos))
       IN /\ reports' = reports \cup powder.reports
          /\ IF powder.raised # ""
             THEN /\ out' = out
                  /\ Terminate("excepted")
             ELSE IF output_spectra.raised # ""
             THEN /\ out' = with_params
                  /\ Terminate("excepted")
             ELSE /\ out' = Put(with_params, "output_spectra", output_spectra)
                  /\ Terminate("finished_ok")
    /\ UNCHANGED <<inputs, ctx, calcs, fn_vars>>

----------------------------------------------------------------------------
(* The engine: it ends the submitted processes, in any order. *)

\* The exit statuses a process may end with.  A production job is not timed
\* out more than MaxTimeouts times in a row.
ExitStatuses(calc) ==
    {0, ERROR_OUTPUT_STDOUT_INCOMPLETE} \cup
    IF /\ calc.process = "xs_prod"
       /\ ParseInt(Split(calc.label, "_")[5]) <= MaxTimeouts
    THEN {ERROR_OUT_OF_WALLTIME} ELSE {}

process_terminates ==
    \E pk \in 1..Len(calcs) :
        /\ ~is_finished(calcs[pk])
        /\ \E status \in ExitStatuses(calcs[pk]) :
               calcs' = [calcs EXCEPT ![pk].process_state = "finished",
                                      ![pk].exit_status = status]
        /\ UNCHANGED <<inputs, pc, ctx, out, reports, exit_code, fn_vars>>

----------------------------------------------------------------------------
(* The work chain. *)

Init ==
    /\ inputs \in Inputs
    /\ pc = "setup"
    /\ ctx = [nodes |-> EmptyDict]
    /\ calcs = <<>>
    /\ out = EmptyDict
    /\ reports = {}
    /\ exit_code = "none"
    /\ powder_in = EmptyDict
    /\ powder_out = <<>>

Next ==
    \/ setup
    \/ run_scf
    \/ inspect_scf
    \/ if_should_run_upf2plotcore
    \/ run_upf2plotcore
    \/ while_should_repeat_xs_prod
    \/ run_all_xspectra_prod
    \/ inspect_all_xspectra_prod
    \/ run_all_xspectra_plot
    \/ inspect_all_xspectra_plot
    \/ results
    \/ process_terminates

Spec == Init /\ [][Next]_vars

\* The production loop reads the number of vectors, never their values: the
\* runs of the loop for the lists <<[1,0,0]>>, <<[1,0,0],[0,1,0]>>, ...
LoopInit ==
    /\ Init
    /\ \E n \in 1..MaxVectors :
           inputs.eps_vectors = SubSeq(<<EpsA, EpsB, EpsC, EpsDiag>>, 1, n)

\* The engine runs every step that can run and every process ends.
FairSpec == LoopInit /\ [][Next]_vars /\ WF_vars(Next)

----------------------------------------------------------------------------
(* get_powder_spectrum on its own: every call with spectra labelled by a   *)
(* subset of the three basis labels.                                       *)

PowderLabels == {"eps_100", "eps_010", "eps_001"}

\* The energy grids of the spectra: two grids of GridLen points.
Grids == {[i \in 1..GridLen |-> i + shift] : shift \in {0, 1}}

Spectra ==
    {XyData(x, "energy", "eV", y, "sigma", "Mbarn") :
        x \in Grids, y \in [1..GridLen -> 0..MaxY]}

PowderCalls ==
    {Put(spectra, "metadata", [call_link_label |-> "compile_powder"]) :
        spectra \in UNION {[labels -> Spectra] : labels \in SUBSET PowderLabels}}

PowderInit ==
    /\ inputs = [eps_vectors |-> <<EpsA>>, collect_powder |-> TRUE,
                 has_core_wfc_data |-> TRUE]
    /\ pc = "calcfunction"
    /\ ctx = [nodes |-> EmptyDict]
    /\ calcs = <<>>
    /\ out = EmptyDict
    /\ reports = {}
    /\ exit_code = "none"
    /\ powder_in \in PowderCalls
    /\ powder_out = <<>>

call_get_powder_spectrum ==
    /\ pc = "calcfunction"
    /\ Len(powder_out) = 0
    /\ powder_out' = <<get_powder_spectrum(powder_in)>>
    /\ UNCHANGED <<wf_vars, powder_in>>

PowderNext == call_get_powder_spectrum

PowderSpec == PowderInit /\ [][PowderNext]_vars

----------------------------------------------------------------------------
(* What the claims speak of. *)

ProdCalcs == {pk \in 1..Len(calcs) : calcs[pk].process = "xs_prod"}

PlotCalcs == {pk \in 1..Len(calcs) : calcs[pk].process = "xs_plot"}

\* <<k, i>> for each production job, labelled xas_prod_<k>_iter_<i>
Lineage ==
    [pk \in ProdCalcs |->
        LET numbers(pieces) == <<ParseInt(pieces[3]), ParseInt(pieces[5])>>
        IN Apply(numbers, Split(calcs[pk].label, "_"))]

Position(pk) == Lineage[pk][1]

Iteration(pk) == Lineage[pk][2]

TimedOut(pk) ==
    is_finished(calcs[pk]) /\ calcs[pk].exit_status = ERROR_OUT_OF_WALLTIME

\* The job finished unsuccessfully with an exit status other than 400.
FailedFatally(pk) ==
    is_finished(calcs[pk]) /\ calcs[pk].exit_status \notin {0, ERROR_OUT_OF_WALLTIME}

\* The production jobs of the round submitted last.
CurrentRound ==
    IF Has(ctx, "xspectra_calc_labels")
    THEN {pk \in ProdCalcs :
             \E i \in 1..Len(ctx.xspectra_calc_labels) :
                 ctx.nodes[ctx.xspectra_calc_labels[i]] = pk}
    ELSE {}

\* The later attempts that continue the attempt pk (lin is Lineage).
SuccessorsIn(lin, pk) ==
    {q \in DOMAIN lin : lin[q] = <<lin[pk][1], lin[pk][2] + 1>>}

Successors(pk) == Apply(LAMBDA lin : SuccessorsIn(lin, pk), Lineage)

\* q restarts pk the way the restart policy asks for.
RestartsProperly(lin, q, pk) ==
    /\ calcs[q].label = IterLabel(ProdLabel(lin[pk][1]), lin[pk][2] + 1)
    /\ calcs[q].restart_mode = "restart"
    /\ calcs[q].xepsilon = calcs[pk].xepsilon
    /\ q > pk

ResubmittedIn(lin, pk) ==
    /\ Cardinality(SuccessorsIn(lin, pk)) = 1
    /\ \A q \in SuccessorsIn(lin, pk) : RestartsProperly(lin, q, pk)

Resubmitted(pk) == Apply(LAMBDA lin : ResubmittedIn(lin, pk), Lineage)

InProductionLoop ==
    pc \in {"run_all_xspectra_prod", "inspect_all_xspectra_prod",
            "while_should_repeat_xs_prod"}

AllComplete == Has(ctx, "all_lanczos_computed") /\ ctx.all_lanczos_computed

\* The accepted jobs of the vector at position k (0-based).
AcceptedFor(lin, k) ==
    {i \in 1..Len(ctx.finished_lanczos) : lin[ctx.finished_lanczos[i]][1] = k}

EveryVectorAcceptedOnce ==
    /\ Has(ctx, "finished_lanczos")
    /\ \E lin \in {Lineage} :
           \A k \in 0..(Len(inputs.eps_vectors) - 1) :
               Cardinality(AcceptedFor(lin, k)) = 1

FailedXspectra ==
    pc = "terminated" /\ exit_code = "ERROR_SUB_PROCESS_FAILED_XSPECTRA"

----------------------------------------------------------------------------
(* C1: once inspect_all_xspectra_prod has met a production job that failed *)
(* with an exit status other than 400 the work chain has ended with        *)
(* ERROR_SUB_PROCESS_FAILED_XSPECTRA: no job of that round was restarted,  *)
(* no replot job exists, no output is attached, and nothing is submitted   *)
(* or attached afterwards.                                                 *)

C1_StoppedByFatalFailure ==
    (\E pk \in ProdCalcs : FailedFatally(pk)) /\ pc # "inspect_all_xspectra_prod"
        => /\ FailedXspectra
           /\ \E lin \in {Lineage} :
                  \A pk \in CurrentRound : SuccessorsIn(lin, pk) = {}
           /\ PlotCalcs = {}
           /\ DOMAIN out = {}

C1_FatalFailureIsHardStop ==
    /\ []C1_StoppedByFatalFailure
    /\ [][pc = "terminated" => UNCHANGED <<pc, calcs, out, exit_code>>]_vars

\* A job failed fatally in the round in which another one timed out.
C1_Witness ==
    /\ FailedXspectra
    /\ \E pk \in CurrentRound : FailedFatally(pk)
    /\ \E pk \in CurrentRound : TimedOut(pk)

----------------------------------------------------------------------------
(* C2 as claimed: every production job that ended with exit status 400 is *)
(* resubmitted exactly once, as soon as the production loop has run its    *)
(* next round.                                                             *)

C2_EveryTimeoutResubmitted ==
    \E lin \in {Lineage} :
    \A pk \in ProdCalcs :
        TimedOut(pk) =>
            (pk \in CurrentRound /\ InProductionLoop) \/ ResubmittedIn(lin, pk)

(* C2 as amended: a job that timed out is restarted at most once, and by a *)
(* job with the same sequence label, the iteration number incremented by   *)
(* one, restart_mode 'restart' and the same xepsilon; it is restarted in   *)
(* the next round unless a job of its own round failed with another exit   *)
(* status, in which case the work chain ended with                         *)
(* ERROR_SUB_PROCESS_FAILED_XSPECTRA and restarted nothing.                *)

C2_TimeoutResubmittedUnlessFatal ==
    \E lin \in {Lineage} :
    \A pk \in ProdCalcs :
        TimedOut(pk) =>
            /\ Cardinality(SuccessorsIn(lin, pk)) <= 1
            /\ \A q \in SuccessorsIn(lin, pk) : RestartsProperly(lin, q, pk)
            /\ \/ ResubmittedIn(lin, pk)
               \/ pk \in CurrentRound /\ InProductionLoop
               \/ /\ pk \in CurrentRound
                  /\ FailedXspectra
                  /\ \E q \in CurrentRound : FailedFatally(q)

\* A vector timed out twice in a row and its third attempt was accepted.
C2_Witness ==
    \E lin \in {Lineage} :
    \E pk \in ProdCalcs :
        /\ lin[pk][2] = 3
        /\ is_finished_ok(calcs[pk])
        /\ \E q \in ProdCalcs : TimedOut(q) /\ pk \in SuccessorsIn(lin, q)

----------------------------------------------------------------------------
(* C3: the production loop has ended in AllComplete exactly when every     *)
(* requested vector has one accepted job, and when no SCF or production    *)
(* job fails for another reason than the walltime, AllComplete is reached. *)

NoFatalFailure ==
    \A pk \in 1..Len(calcs) :
        calcs[pk].process \in {"scf", "xs_prod"} => ~FailedFatally(pk)

C3_AllCompleteIffAccepted ==
    /\ [](AllComplete <=> EveryVectorAcceptedOnce)
    /\ ([]NoFatalFailure => <>AllComplete)

\* AllComplete after a round of restarts.
C3_Witness ==
    /\ AllComplete
    /\ \E pk \in ProdCalcs : TimedOut(pk)
    /\ Len(inputs.eps_vectors) > 1

----------------------------------------------------------------------------
(* C4 as claimed: when the loop has ended normally every requested vector  *)
(* has exactly one accepted job and ctx.lanczos_to_restart is empty.       *)

C4_RestartQueueEmpty ==
    AllComplete => EveryVectorAcceptedOnce /\ Len(ctx.lanczos_to_restart) = 0

(* C4 as amended: when the loop has ended normally every requested vector  *)
(* has exactly one accepted job and no job waits for a restart: no job of  *)
(* the last round timed out, and the jobs ctx.lanczos_to_restart still     *)
(* lists (the list is not cleared) have all been resubmitted.              *)

C4_NothingAwaitsRestart ==
    AllComplete =>
        /\ EveryVectorAcceptedOnce
        /\ \A pk \in CurrentRound : is_finished_ok(calcs[pk])
        /\ \E lin \in {Lineage} :
               /\ \A i \in 1..Len(ctx.lanczos_to_restart) :
                      ResubmittedIn(lin, ctx.lanczos_to_restart[i])
               /\ \A pk \in ProdCalcs : TimedOut(pk) => ResubmittedIn(lin, pk)

\* The loop ended normally and the restart list still names a job.
C4_Witness ==
    AllComplete /\ Len(ctx.lanczos_to_restart) > 0

----------------------------------------------------------------------------
(* C5: a replot job that finished unsuccessfully makes                     *)
(* inspect_all_xspectra_plot return ERROR_SUB_PROCESS_FAILED_XSPECTRA, and *)
(* no output is attached.                                                  *)

ReplotFailed(pk) == is_finished(calcs[pk]) /\ ~is_finished_ok(calcs[pk])

C5_ReplotFailureIsFatal ==
    (\E pk \in PlotCalcs : ReplotFailed(pk)) /\ pc \in {"results", "terminated"}
        => FailedXspectra /\ DOMAIN out = {}

----------------------------------------------------------------------------
(* C6: when the work chain has finished successfully output_spectra holds  *)
(* exactly one spectrum for each requested vector and                      *)
(* output_parameters_xspectra exactly one entry for each.                  *)

C6_OutputsCoverEveryVector ==
    exit_code = "finished_ok" =>
        LET n == Len(inputs.eps_vectors)
        IN /\ Len(out.output_spectra.y) = n
           /\ \A k \in 1..n :
                  Cardinality({i \in 1..Len(out.output_spectra.y) :
                      out.output_spectra.y_name[i] = inputs.eps_vectors[k]}) = 1
           /\ DOMAIN out.output_parameters_xspectra = {ProdLabel(k - 1) : k \in 1..n}

----------------------------------------------------------------------------
(* C7: get_powder_spectrum returns the documented average on the grid of   *)
(* spectrum A, with y units 'n/a': y itself for one spectrum,              *)
(* 3 * y = 2 * y_A + y_C for two (A the spectrum of eps_100 or eps_010, C  *)
(* that of eps_001) and 3 * y = y_A + y_B + y_C for three.                 *)

\* 3 * q = n for the fraction q
ThreeTimes(q, n) == 3 * q[1] = n * q[2]

C7_PowderIsWeightedAverage ==
    Len(powder_out) = 1 =>
        LET spectra == WithoutMetadata(powder_in)
            labels == DOMAIN spectra
            powder == powder_out[1]
            grid == 1..GridLen
        IN /\ Cardinality(labels) = 1 =>
                  \A label \in labels :
                      /\ powder.raised = ""
                      /\ powder.x = spectra[label].x
                      /\ powder.y = spectra[label].y
                      /\ powder.y_units = "n/a"
           /\ Cardinality(labels) = 2 /\ "eps_001" \in labels =>
                  \A label \in labels \ {"eps_001"} :
                      /\ powder.raised = ""
                      /\ powder.x = spectra[label].x
                      /\ DOMAIN powder.y = grid
                      /\ \A i \in grid :
                             ThreeTimes(powder.y[i],
                                 (2 * spectra[label].y[i]) + spectra["eps_001"].y[i])
                      /\ powder.y_units = "n/a"
           /\ Cardinality(labels) = 3 =>
                  /\ powder.raised = ""
                  /\ powder.x = spectra["eps_100"].x
                  /\ DOMAIN powder.y = grid
                  /\ \A i \in grid :
                         ThreeTimes(powder.y[i],
                             spectra["eps_100"].y[i] + spectra["eps_010"].y[i]
                                 + spectra["eps_001"].y[i])
                  /\ powder.y_units = "n/a"

\* The dichoric average of y_A = 1 and y_C = 0 at the first point: 2/3.
C7_Witness ==
    /\ Len(powder_out) = 1
    /\ DOMAIN WithoutMetadata(powder_in) = {"eps_100", "eps_001"}
    /\ powder_in["eps_100"].y[1] = 1
    /\ powder_in["eps_001"].y[1] = 0
    /\ powder_in["eps_100"].x # powder_in["eps_001"].x
    /\ powder_out[1].y[1] = <<2, 3>>

----------------------------------------------------------------------------
(* C8: with collect_powder and the accepted basis vectors [1,0,0] and      *)
(* [0,1,0] but not [0,0,1], results attaches no powder_spectrum and        *)
(* reports that the [0,0,1] vector is missing.                             *)

ResultsRan == pc = "terminated" /\ exit_code \in {"finished_ok", "excepted"}

\* The basis vectors among the vectors of the accepted production jobs.
AcceptedBasis ==
    {epsilon_vector(calcs[ctx.finished_lanczos[i]]) :
        i \in 1..Len(ctx.finished_lanczos)} \cap eps_powder_vectors

C8_PowderGuardWarns ==
    ResultsRan /\ inputs.collect_powder /\ AcceptedBasis = {EpsA, EpsB}
        => ~Has(out, "powder_spectrum") /\ "missing_c_vector" \in reports

----------------------------------------------------------------------------
(* C9: with collect_powder and accepted jobs for [1,0,0] alone, for        *)
(* [1,0,0] and [0,0,1], or for all three axes, a work chain that finished  *)
(* successfully has attached powder_spectrum, computed by                  *)
(* get_powder_spectrum from the replot spectra of the basis vectors.       *)

C9_PowderEmitted ==
    /\ exit_code = "finished_ok"
    /\ inputs.collect_powder
    /\ AcceptedBasis \in {{EpsA}, {EpsA, EpsC}, {EpsA, EpsB, EpsC}}
    => /\ Has(out, "powder_spectrum")
       /\ out.powder_spectrum =
              get_powder_spectrum(EpsBasisCalcs(ctx.finished_replots))

----------------------------------------------------------------------------
(* C10: with collect_powder and no basis vector among the accepted jobs,   *)
(* results reports a warning, attaches every output but powder_spectrum,   *)
(* and the work chain finishes without an error.                           *)

C10_NoBasisVectorIsOnlyWarned ==
    ResultsRan /\ inputs.collect_powder /\ AcceptedBasis = {}
        => /\ "no_suitable_vectors" \in reports
           /\ DOMAIN out = {"output_parameters_scf", "output_parameters_xspectra",
                            "output_spectra"}
           /\ exit_code = "finished_ok"

----------------------------------------------------------------------------
(* The crystal structures and what the symmetry analysis finds in them. *)

\* A structure has at most this many symmetry-inequivalent sites.
MaxSites == 2

\* upf2plotcore.sh reports 0..MaxCoreStates core states.
MaxCoreStates == 1

S_Si == <<"S", "i">>

S_O == <<"O">>

S_X == <<"X">>

S_site == <<"s", "i", "t", "e">>

S_xspectra == <<"x", "s", "p", "e", "c", "t", "r", "a">>

\* A kind of a structure: its name and the symbol of its element
Kind(name, symbol) == [name |-> name, symbol |-> symbol]

\* The kinds of the structures of the model: silicon, and a silicon oxide
KindLists == {<<Kind(S_Si, S_Si)>>, <<Kind(S_O, S_O), Kind(S_Si, S_Si)>>}

\* [kind.symbol for kind in structure.kinds]
KindSymbols(structure) ==
    [i \in 1..Len(structure.kinds) |-> structure.kinds[i].symbol]

\* [kind.name for kind in structure.kinds]
KindNames(structure) ==
    [i \in 1..Len(structure.kinds) |-> structure.kinds[i].name]

\* x in list
In(x, list) == \E i \in 1..Len(list) : list[i] = x

\* The space-group numbers of the International Tables
SpaceGroups == 1..230

\* The first and the last space group of each range of get_xspectra_structures
BoundarySpaceGroups == {1, 74, 75, 194, 195, 230}

\* A StructureData node together with what spglib finds in it: its space
\* group and the element of each of its symmetry-inequivalent sites.
Structure(kinds, spacegroup_number, sites) ==
    [kinds |-> kinds, spacegroup_number |-> spacegroup_number,
     sites |-> sites, relaxed |-> FALSE]

\* The lists of at most MaxSites inequivalent sites of a structure of the
\* given kinds: every kind has a site.
SiteLists(kinds) ==
    LET symbols == {kinds[i].symbol : i \in 1..Len(kinds)}
    IN {sites \in UNION {[1..n -> symbols] : n \in 1..MaxSites} :
           \A s \in symbols : \E i \in DOMAIN sites : sites[i] = s}

Structures(spacegroups) ==
    UNION {{Structure(kinds, n, sites) :
               n \in spacegroups, sites \in SiteLists(kinds)} :
           kinds \in KindLists}

----------------------------------------------------------------------------
(* The validation of the inputs, which runs when a work chain is launched. *)

\* A validate_inputs that does not look for the marker among the kinds
validate_inputs_MarkerNotChecked(raw) ==
    IF Len(raw.eps_vectors) = 0 THEN "Error: eps_vectors list empty."
    ELSE IF ~raw.has_core_wfc_data /\ ~raw.has_upf2plotcore_code
    THEN "Error: either a core wavefunction file or a code node must be provided."
    ELSE NULL

\* The checks of validate_inputs of XspectraBaseWorkChain, in their order;
\* the result is the message returned, or None.
validate_inputs(raw) ==
    IF Len(raw.eps_vectors) = 0 THEN "Error: eps_vectors list empty."
    ELSE IF ~raw.has_core_wfc_data /\ ~raw.has_upf2plotcore_code
    THEN "Error: either a core wavefunction file or a code node must be provided."
    ELSE IF ~\E i \in 1..Len(raw.structure.kinds) :
                 raw.structure.kinds[i].name = raw.abs_atom_marker
    THEN "Error: the marker does not appear in the structure provided."
    ELSE NULL

\* XspectraCrystalWorkChain.validate_inputs: the ValidationError raised, or None
crystal_validate_inputs(raw) ==
    IF In(raw.abs_atom_marker, KindNames(raw.structure))
    THEN "ValidationError: the marker matches an existing Kind."
    ELSE IF ~raw.core.get_powder_spectrum
    THEN "ValidationError: get_powder_spectrum must be True."
    ELSE NULL

\* The inputs a caller may hand to XspectraBaseWorkChain, valid or not.  The
\* structure has one site of the kind X, or none.
BaseLaunches ==
    [process_class : {"XspectraBaseWorkChain"},
     eps_vectors : {SubSeq(<<EpsA, EpsB, EpsC, EpsDiag>>, 1, n) : n \in 0..MaxVectors},
     collect_powder : BOOLEAN,
     has_core_wfc_data : BOOLEAN,
     has_upf2plotcore_code : BOOLEAN,
     structure : {Structure(<<Kind(S_Si, S_Si)>>, 227, <<S_Si>>),
                  Structure(<<Kind(S_Si, S_Si), Kind(S_X, S_Si)>>, 227, <<S_Si>>)},
     abs_atom_marker : {S_X}]

\* The inputs a caller may hand to XspectraCrystalWorkChain, valid or not.
CrystalInputs(spacegroups, markers, flags) ==
    [process_class : {"XspectraCrystalWorkChain"},
     structure : Structures(spacegroups),
     abs_atom_marker : markers,
     core : [get_powder_spectrum : flags,
             scf : {[pw |-> [parameters |-> [SYSTEM |-> EmptyDict]]]}],
     has_relax : BOOLEAN,
     elements_list : {<<>>, <<S_Si>>},
     return_all_powder_spectra : BOOLEAN]

\* A launch with inputs that the validator rejects creates no process: the
\* caller gets the error.
launch ==
    /\ pc = "validate_inputs"
    /\ inputs.process_class = "XspectraBaseWorkChain"
    /\ \E message \in {validate_inputs(inputs)} :
           IF message # NULL
           THEN /\ pc' = "rejected"
                /\ exit_code' = message
           ELSE /\ pc' = "setup"
                /\ UNCHANGED exit_code
    /\ UNCHANGED <<inputs, ctx, calcs, out, reports, fn_vars>>

crystal_launch ==
    /\ pc = "validate_inputs"
    /\ inputs.process_class = "XspectraCrystalWorkChain"
    /\ \E message \in {crystal_validate_inputs(inputs)} :
           IF message # NULL
           THEN /\ pc' = "rejected"
                /\ exit_code' = message
           ELSE /\ pc' = "crystal_setup"
                /\ UNCHANGED exit_code
    /\ UNCHANGED <<inputs, ctx, calcs, out, reports, fn_vars>>

----------------------------------------------------------------------------
(* The processes and calcfunctions XspectraCrystalWorkChain calls. *)

S_relax == <<"r", "e", "l", "a", "x">>

\* A process submitted by XspectraCrystalWorkChain, with its call link label
Process(process, label, structure, eps_vectors, core_wfc_data) ==
    [process |-> process, label |-> label, structure |-> structure,
     eps_vectors |-> eps_vectors, core_wfc_data |-> core_wfc_data,
     process_state |-> "waiting", exit_status |-> 0, outputs |-> EmptyDict]

\* dict(items): a key keeps the place of its first item and the value of
\* its last one
Dict(items) ==
    LET first == {i \in DOMAIN items :
                     \A j \in 1..(i - 1) : items[j].key # items[i].key}
        nth(k) == CHOOSE i \in first : Cardinality({j \in first : j < i}) = k - 1
        last(key) == CHOOSE i \in DOMAIN items :
                         /\ items[i].key = key
                         /\ \A j \in (i + 1)..Len(items) : items[j].key # key
    IN [k \in 1..Cardinality(first) |->
           [key |-> items[nth(k)].key,
            value |-> items[last(items[nth(k)].key)].value]]

\* dict.keys(), in the order of the dictionary
Keys(dict) == [i \in 1..Len(dict) |-> dict[i].key]

\* dict[key]
Get(dict, key) == dict[CHOOSE i \in 1..Len(dict) : dict[i].key = key].value

\* zip(a, b)
Zip(a, b) ==
    [i \in 1..(IF Len(a) < Len(b) THEN Len(a) ELSE Len(b)) |-> <<a[i], b[i]>>]

\* f'site_{index}'
SiteLabel(index) == S_site \o Us \o Str(index)

\* The structure of one absorbing site: the atom of the site has the kind
\* named by the marker.
MarkedStructure(structure, index, absorbing_atom_marker) ==
    [kinds |-> Append(structure.kinds,
                      Kind(absorbing_atom_marker, structure.sites[index + 1])),
     marked_site |-> index, marked_in |-> structure]

\* The calcfunction get_xspectra_structures: the supercell, the standardized
\* structure, the parameters of the analysis, and one marked structure for
\* each inequivalent site of an absorbing element, under the key
\* 'site_<index>_<symbol>'.
get_xspectra_structures_calcfunction(structure, absorbing_elements_list, absorbing_atom_marker) ==
    LET indices == SelectSeq([i \in 1..Len(structure.sites) |-> i - 1],
                             LAMBDA i : In(structure.sites[i + 1],
                                           absorbing_elements_list))
        index_of(label) == CHOOSE i \in {indices[k] : k \in 1..Len(indices)} :
                               SiteLabel(i) = label
    IN [supercell |-> [supercell_of |-> structure],
        standardized_structure |-> [standardized |-> structure],
        output_parameters |->
            [spacegroup_number |-> structure.spacegroup_number,
             structure_is_standardized |-> TRUE,
             equivalent_sites_data |->
                 [label \in {SiteLabel(indices[k]) : k \in 1..Len(indices)} |->
                     [symbol |-> structure.sites[index_of(label) + 1]]]],
        marked |->
            [k \in 1..Len(indices) |->
                [key |-> SiteLabel(indices[k]) \o Us \o structure.sites[indices[k] + 1],
                 value |-> MarkedStructure(structure, indices[k],
                                           absorbing_atom_marker)]]]

\* The calcfunction get_spectra_by_element: the spectra of the sites of one
\* element are combined into the final spectrum of that element.
get_spectra_by_element(elements_list, equivalent_sites_data, spectra_nodes) ==
    LET sites_of(element) ==
            {i \in 1..Len(spectra_nodes) :
                equivalent_sites_data[spectra_nodes[i].key].symbol = element}
        elements == {elements_list[i] : i \in 1..Len(elements_list)}
    IN [element \in {e \in elements : sites_of(e) # {}} |->
           [combined |-> {spectra_nodes[i] : i \in sites_of(element)}]]

\* The first bytes of the output of upf2plotcore.sh for a pseudopotential
\* with the given number of core states.
CoreWfcContent(count) ==
    <<"#", " ", "n", "u", "m", "b", "e", "r", " ", "o", "f", " ",
      "c", "o", "r", "e", " ", "s", "t", "a", "t", "e", "s", " ">> \o
    Str(count) \o
    <<" ", "=", " ", " ", "1", " ", "0", ";", " ", " ", "2", " ", "0", ";",
      " ", " ", "2", " ", "1", ";">>

\* int(content[:40].split(' ')[5]), or the exception raised
num_core_states(content) ==
    LET header_line == SubSeq(content, 1, IF Len(content) < 40 THEN Len(content) ELSE 40)
        pieces == Split(header_line, " ")
    IN IF Len(pieces) < 6 THEN [raised |-> "IndexError", value |-> 0]
       ELSE [raised |-> "", value |-> ParseInt(pieces[6])]
----------------------------------------------------------------------------
(* xiabs, the index of the absorbing species, as the two work chains       *)
(* compute it from the names of the kinds of a structure.                  *)

S_S == <<"S">>

S_Si1 == <<"S", "i", "1">>

\* The characters of the kind names, in the order of their code points
Characters == <<"1", "O", "S", "X", "i">>

\* The rank of a character of a kind name among Characters
ord(c) == CHOOSE n \in 1..Len(Characters) : Characters[n] = c

\* a < b on strings: the first character that differs decides, and a
\* string comes after its proper prefixes
StrLess(a, b) ==
    \/ \E i \in 1..Len(a) :
           /\ i <= Len(b)
           /\ SubSeq(a, 1, i - 1) = SubSeq(b, 1, i - 1)
           /\ ord(a[i]) < ord(b[i])
    \/ Len(a) < Len(b) /\ a = SubSeq(b, 1, Len(a))

\* sorted(list), for a list of strings without repetition
sorted(list) ==
    [i \in 1..Len(list) |->
        list[CHOOSE j \in 1..Len(list) :
                 Cardinality({k \in 1..Len(list) : StrLess(list[k], list[j])})
                     = i - 1]]

\* The counter loop of the base work chain over kinds_list[i..]
RECURSIVE XiabsLoop(_, _, _, _, _)
XiabsLoop(kinds_list, abs_atom_marker, i, kind_counter, xiabs) ==
    IF i > Len(kinds_list) THEN xiabs
    ELSE IF kinds_list[i] = abs_atom_marker
    THEN XiabsLoop(kinds_list, abs_atom_marker, i + 1, kind_counter, kind_counter)
    ELSE XiabsLoop(kinds_list, abs_atom_marker, i + 1, kind_counter + 1, xiabs)

\* The counter loop with a counter that starts at 0
base_xiabs_CounterFromZero(structure, abs_atom_marker) ==
    XiabsLoop(sorted(KindNames(structure)), abs_atom_marker, 1, 0, NULL)

\* xiabs in run_all_xspectra_prod of the base work chain
base_xiabs(structure, abs_atom_marker) ==
    XiabsLoop(sorted(KindNames(structure)), abs_atom_marker, 1, 1, NULL)

\* list.index(x): the 0-based position of the first x in list
IndexOf(list, x) ==
    (CHOOSE i \in 1..Len(list) :
         list[i] = x /\ \A j \in 1..(i - 1) : list[j] # x) - 1

\* abs_species_index in run_all_xspectra_core of the crystal work chain
abs_species_index(structure, abs_atom_marker) ==
    LET kinds_present == sorted(KindNames(structure))
    IN IndexOf(kinds_present, abs_atom_marker) + 1

----------------------------------------------------------------------------
(* The outline of XspectraCrystalWorkChain. *)

crystal_setup ==
    /\ pc = "crystal_setup"
    /\ ctx' = Put(ctx, "elements_list",
                  IF Len(inputs.elements_list) = 0
                  THEN KindSymbols(inputs.structure)
                  ELSE inputs.elements_list)
    /\ pc' = "if_should_run_relax"
    /\ UNCHANGED <<inputs, calcs, out, reports, exit_code, fn_vars>>

\* A relax stage that runs whatever the inputs are
should_run_relax_Always == TRUE

\* 'relax' in self.inputs
should_run_relax == inputs.has_relax

if_should_run_relax ==
    /\ pc = "if_should_run_relax"
    /\ pc' = IF should_run_relax THEN "run_relax" ELSE "get_xspectra_structures"
    /\ UNCHANGED <<inputs, ctx, calcs, out, reports, exit_code, fn_vars>>

run_relax ==
    /\ pc = "run_relax"
    /\ calcs' = calcs \o
           <<Process("PwRelaxWorkChain", S_relax, inputs.structure, <<>>, 0)>>
    /\ ctx' = Put(ctx, "relax_workchain", NewPk(1))
    /\ pc' = "inspect_relax"
    /\ UNCHANGED <<inputs, out, reports, exit_code, fn_vars>>

inspect_relax ==
    /\ pc = "inspect_relax"
    /\ AllTerminated
    /\ LET workchain == calcs[ctx.relax_workchain]
       IN IF ~is_finished_ok(workchain)
          THEN /\ Terminate("ERROR_SUB_PROCESS_FAILED_RELAX")
               /\ UNCHANGED <<ctx, out>>
          ELSE /\ ctx' = Put(ctx, "relaxed_structure",
                             workchain.outputs.output_structure)
               /\ out' = Put(out, "optimized_structure",
                             workchain.outputs.output_structure)
               /\ pc' = "get_xspectra_structures"
               /\ UNCHANGED exit_code
    /\ UNCHANGED <<inputs, calcs, reports, fn_vars>>

\* spacegroup_number in range(first, stop)
InRange(spacegroup_number, first, stop) ==
    first <= spacegroup_number /\ spacegroup_number < stop

\* The space-group tests with the last dichoric group left out
SetEpsVectors_DichoricEndsEarly(context, spacegroup_number) ==
    LET trichoric == IF InRange(spacegroup_number, 1, 75)
                     THEN Put(context, "eps_vectors", <<EpsA, EpsB, EpsC>>)
                     ELSE context
        dichoric == IF InRange(spacegroup_number, 75, 194)
                    THEN Put(trichoric, "eps_vectors", <<EpsA, EpsC>>)
                    ELSE trichoric
    IN IF InRange(spacegroup_number, 195, 231)
       THEN Put(dichoric, "eps_vectors", <<EpsA>>)
       ELSE dichoric

\* The space-group tests with a last branch for every other number
SetEpsVectors_ElseIsochoric(context, spacegroup_number) ==
    LET trichoric == IF InRange(spacegroup_number, 1, 75)
                     THEN Put(context, "eps_vectors", <<EpsA, EpsB, EpsC>>)
                     ELSE context
        dichoric == IF InRange(spacegroup_number, 75, 195)
                    THEN Put(trichoric, "eps_vectors", <<EpsA, EpsC>>)
                    ELSE trichoric
    IN IF InRange(spacegroup_number, 195, 231) \/ ~Has(dichoric, "eps_vectors")
       THEN Put(dichoric, "eps_vectors", <<EpsA>>)
       ELSE dichoric

\* The three tests of the space group, in their order: each sets
\* self.ctx.eps_vectors when the number is in its range.
SetEpsVectors(context, spacegroup_number) ==
    LET trichoric == IF InRange(spacegroup_number, 1, 75)
                     THEN Put(context, "eps_vectors", <<EpsA, EpsB, EpsC>>)
                     ELSE context
        dichoric == IF InRange(spacegroup_number, 75, 195)
                    THEN Put(trichoric, "eps_vectors", <<EpsA, EpsC>>)
                    ELSE trichoric
    IN IF InRange(spacegroup_number, 195, 231)
       THEN Put(dichoric, "eps_vectors", <<EpsA>>)
       ELSE dichoric

\* The site key made of the first and the third piece of the key
SiteKey_WithoutIndex(Key) == Split(Key, "_")[1] \o Us \o Split(Key, "_")[3]

\* f'{Key.split("_")[0]}_{Key.split("_")[1]}'
SiteKey(Key) == Split(Key, "_")[1] \o Us \o Split(Key, "_")[2]

get_xspectra_structures ==
    /\ pc = "get_xspectra_structures"
    /\ \E result \in {get_xspectra_structures_calcfunction(
                          IF inputs.has_relax THEN ctx.relaxed_structure
                          ELSE inputs.structure,
                          ctx.elements_list, inputs.abs_atom_marker)} :
          LET out_params == result.output_parameters
              structures_to_process ==
                  Dict([k \in 1..Len(result.marked) |->
                           [key |-> SiteKey(result.marked[k].key),
                            value |-> result.marked[k].value]])
              standardized ==
                  IF out_params.structure_is_standardized
                  THEN Put(out, "standardized_structure",
                           result.standardized_structure)
                  ELSE out
          IN /\ ctx' = Put(Put(SetEpsVectors(ctx, out_params.spacegroup_number),
                               "structures_to_process", structures_to_process),
                           "equivalent_sites_data",
                           out_params.equivalent_sites_data)
             /\ out' = Put(Put(standardized, "supercell_structure",
                               result.supercell),
                           "symmetry_analysis_data", out_params)
    /\ pc' = "crystal_run_upf2plotcore"
    /\ UNCHANGED <<inputs, calcs, reports, exit_code, fn_vars>>

\* f'upf2plotcore_{element}'
ShellJobLabel(element) == S_upf2plotcore \o Us \o element

crystal_run_upf2plotcore ==
    /\ pc = "crystal_run_upf2plotcore"
    /\ \E elements_list \in {ctx.elements_list} :
       \E keys \in {[i \in 1..Len(elements_list) |->
                        ShellJobLabel(elements_list[i])]} :
          /\ calcs' = calcs \o
                 [i \in 1..Len(elements_list) |->
                     Process("ShellJob", keys[i], <<>>, <<>>, 0)]
          /\ ctx' = Put(ctx, "nodes", ToContext(ctx.nodes, keys))
    /\ pc' = "inspect_upf2plotcore"
    /\ UNCHANGED <<inputs, out, reports, exit_code, fn_vars>>

\* A loop that looks at one label only
InspectUpf2plotcoreLoop_FirstOnly(labels, i) ==
    IF i > Len(labels) THEN ""
    ELSE LET shelljob_node == calcs[ctx.nodes[ShellJobLabel(labels[i])]]
             counted == num_core_states(shelljob_node.outputs.stdout)
         IN IF counted.raised # "" THEN counted.raised
            ELSE IF counted.value = 0 THEN "ERROR_NO_GIPAW_INFO_FOUND"
            ELSE ""

\* The loop of inspect_upf2plotcore from the i-th label on: the exit code
\* returned or the exception raised, "" when the loop ends.
RECURSIVE InspectUpf2plotcoreLoop(_, _)
InspectUpf2plotcoreLoop(labels, i) ==
    IF i > Len(labels) THEN ""
    ELSE LET shelljob_node == calcs[ctx.nodes[ShellJobLabel(labels[i])]]
             counted == num_core_states(shelljob_node.outputs.stdout)
         IN IF counted.raised # "" THEN counted.raised
            ELSE IF counted.value = 0 THEN "ERROR_NO_GIPAW_INFO_FOUND"
            ELSE InspectUpf2plotcoreLoop(labels, i + 1)

inspect_upf2plotcore ==
    /\ pc = "inspect_upf2plotcore"
    /\ AllTerminated
    /\ \E returned \in {InspectUpf2plotcoreLoop(ctx.elements_list, 1)} :
          IF returned = "" THEN /\ pc' = "run_all_xspectra_core"
                                /\ UNCHANGED exit_code
          ELSE IF returned = "ERROR_NO_GIPAW_INFO_FOUND"
          THEN Terminate(returned)
          ELSE Terminate("excepted")
    /\ UNCHANGED <<inputs, ctx, calcs, out, reports, fn_vars>>

\* An engine that puts the future at the head of the list
append__AtHead(list, future) == <<future>> \o list

\* to_context(key=append_(future)): the engine puts the future at the end of
\* the list, where it stays when the process ends.
append_(list, future) == Append(list, future)

S_treatment == <<"t", "r", "e", "a", "t", "m", "e", "n", "t">>

S_starting_magnetization ==
    <<"s", "t", "a", "r", "t", "i", "n", "g", "_",
      "m", "a", "g", "n", "e", "t", "i", "z", "a", "t", "i", "o", "n">>

\* f'starting_magnetization({abs_species_index})'
StartingMagnetization(index) ==
    S_starting_magnetization \o <<"(">> \o Str(index) \o <<")">>

\* XspectraCoreWorkChain.get_treatment_inputs: the SCF parameters that the
\* protocol of a core-hole treatment sets, here a setting that names it
get_treatment_inputs(treatment) == [SYSTEM |-> (S_treatment :> treatment)]

\* recursive_merge of two parameter dictionaries: a setting of `right`
\* replaces the same setting of `left`
recursive_merge(left, right) ==
    [namelist \in (DOMAIN left) \cup (DOMAIN right) |->
        (IF Has(right, namelist) THEN right[namelist] ELSE EmptyDict) @@
        (IF Has(left, namelist) THEN left[namelist] ELSE EmptyDict)]

\* The core-hole treatment where none is configured for an element: none
\* but the full core hole
ChTreatment_AlwaysFull(abs_element) == "full"

\* ch_treatment for a site of the element abs_element
ChTreatment(abs_element) ==
    IF Has(inputs, "core_hole_treatments")
    THEN IF Has(inputs.core_hole_treatments, abs_element)
         THEN inputs.core_hole_treatments[abs_element]
         ELSE "full"
    ELSE "full"

\* new_scf_params for a site: the SCF settings given, overwritten by those
\* of the treatment, and the starting magnetization of the absorbing species
\* for 'xch_smear'
NewScfParams(structure, abs_element) ==
    LET ch_treatment == ChTreatment(abs_element)
        scf_params == inputs.core.scf.pw.parameters
        ch_inputs == get_treatment_inputs(ch_treatment)
        new_scf_params == recursive_merge(scf_params, ch_inputs)
        species_index == abs_species_index(structure, inputs.abs_atom_marker)
    IN IF ch_treatment = "xch_smear"
       THEN [new_scf_params EXCEPT
                !.SYSTEM = Put(@, StartingMagnetization(species_index), 1)]
       ELSE new_scf_params

\* The XspectraCoreWorkChain submitted for one item of structures_to_process
CoreWorkChain(site) ==
    LET abs_element == ctx.equivalent_sites_data[site.key].symbol
    IN Put(Put(Process("XspectraCoreWorkChain", site.key \o Us \o S_xspectra,
                       site.value, ctx.eps_vectors,
                       ctx.nodes[ShellJobLabel(abs_element)]),
               "scf_parameters", NewScfParams(site.value, abs_element)),
           "xiabs", abs_species_index(site.value, inputs.abs_atom_marker))

run_all_xspectra_core ==
    /\ pc = "run_all_xspectra_core"
    /\ \E structures_to_process \in {ctx.structures_to_process} :
          IF Len(structures_to_process) > 0 /\ ~Has(ctx, "eps_vectors")
          THEN /\ Terminate("excepted")
               /\ UNCHANGED <<ctx, calcs>>
          ELSE LET appended[k \in 0..Len(structures_to_process)] ==
                       IF k > 0 THEN append_(appended[k - 1], NewPk(k))
                       ELSE IF Has(ctx, "xspectra_core_workchains")
                       THEN ctx.xspectra_core_workchains
                       ELSE <<>>
               IN /\ calcs' = calcs \o
                         [k \in 1..Len(structures_to_process) |->
                             CoreWorkChain(structures_to_process[k])]
                  /\ ctx' = IF Len(structures_to_process) = 0 THEN ctx
                            ELSE Put(ctx, "xspectra_core_workchains",
                                     appended[Len(structures_to_process)])
                  /\ pc' = "inspect_all_xspectra_core"
                  /\ UNCHANGED exit_code
    /\ UNCHANGED <<inputs, out, reports, fn_vars>>

\* An inspection that stops at the first work chain
FailedWorkChains_FirstOnly ==
    SelectSeq(SubSeq(Zip(ctx.xspectra_core_workchains,
                         Keys(ctx.structures_to_process)), 1, 1),
              LAMBDA pair : ~is_finished_ok(calcs[pair[1]]))

\* The work chains that inspect_all_xspectra_core finds failed, each with
\* the label it is reported under.
FailedWorkChains ==
    SelectSeq(Zip(ctx.xspectra_core_workchains, Keys(ctx.structures_to_process)),
              LAMBDA pair : ~is_finished_ok(calcs[pair[1]]))

inspect_all_xspectra_core ==
    /\ pc = "inspect_all_xspectra_core"
    /\ AllTerminated
    /\ IF ~Has(ctx, "xspectra_core_workchains")
       THEN /\ Terminate("excepted")
            /\ UNCHANGED reports
       ELSE \E failed_work_chains \in {FailedWorkChains} :
               /\ reports' = reports \cup
                      {failed_work_chains[i][2] : i \in 1..Len(failed_work_chains)}
               /\ IF Len(failed_work_chains) > 0
                  THEN Terminate("ERROR_SUB_PROCESS_FAILED_XSPECTRA")
                  ELSE /\ pc' = "crystal_results"
                       /\ UNCHANGED exit_code
    /\ UNCHANGED <<inputs, ctx, calcs, out, fn_vars>>

\* {label : node.outputs.powder_spectrum for label, node in zip(...)}
SpectraNodes ==
    LET pairs == Zip(Keys(ctx.structures_to_process), ctx.xspectra_core_workchains)
    IN Dict([i \in 1..Len(pairs) |->
                [key |-> pairs[i][1],
                 value |-> calcs[pairs[i][2]].outputs.powder_spectrum]])

crystal_results ==
    /\ pc = "crystal_results"
    /\ IF \E i \in 1..Len(ctx.xspectra_core_workchains) :
              ~Has(calcs[ctx.xspectra_core_workchains[i]].outputs, "powder_spectrum")
       THEN /\ Terminate("excepted")
            /\ UNCHANGED out
       ELSE \E spectra_nodes \in {SpectraNodes} :
            \E final_spectra \in {get_spectra_by_element(
                                      ctx.elements_list,
                                      ctx.equivalent_sites_data, spectra_nodes)} :
               /\ out' = IF inputs.return_all_powder_spectra
                         THEN Put(Put(out, "final_spectra", final_spectra),
                                  "powder_spectra", spectra_nodes)
                         ELSE Put(out, "final_spectra", final_spectra)
               /\ Terminate("finished_ok")
    /\ UNCHANGED <<inputs, ctx, calcs, reports, fn_vars>>

----------------------------------------------------------------------------
(* The engine running the processes of the crystal work chain. *)

\* How a process may end: its exit status and its outputs.  The output of
\* upf2plotcore.sh starts with the line that counts the core states.
Outcomes(process) ==
    IF process.process = "PwRelaxWorkChain"
    THEN {[exit_status |-> 0,
           outputs |-> [output_structure |->
                           [process.structure EXCEPT !.relaxed = TRUE]]],
          [exit_status |-> 401, outputs |-> EmptyDict]}
    ELSE IF process.process = "ShellJob"
    THEN {[exit_status |-> status,
           outputs |-> [stdout |-> CoreWfcContent(count)]] :
             status \in {0, 400}, count \in 0..MaxCoreStates}
    ELSE {[exit_status |-> 0,
           outputs |-> [powder_spectrum |-> [powder_of |-> process.structure]]],
          [exit_status |-> 402, outputs |-> EmptyDict]}

crystal_process_terminates ==
    \E pk \in 1..Len(calcs) :
        /\ ~is_finished(calcs[pk])
        /\ \E outcome \in Outcomes(calcs[pk]) :
               calcs' = [calcs EXCEPT ![pk].process_state = "finished",
                                      ![pk].exit_status = outcome.exit_status,
                                      ![pk].outputs = outcome.outputs]
        /\ UNCHANGED <<inputs, pc, ctx, out, reports, exit_code, fn_vars>>

----------------------------------------------------------------------------
(* The crystal work chain. *)

CrystalInit ==
    /\ inputs \in CrystalInputs(BoundarySpaceGroups, {S_X}, {TRUE})
    /\ pc = "crystal_setup"
    /\ ctx = [nodes |-> EmptyDict]
    /\ calcs = <<>>
    /\ out = EmptyDict
    /\ reports = {}
    /\ exit_code = "none"
    /\ powder_in = EmptyDict
    /\ powder_out = <<>>

CrystalNext ==
    \/ crystal_setup
    \/ if_should_run_relax
    \/ run_relax
    \/ inspect_relax
    \/ get_xspectra_structures
    \/ crystal_run_upf2plotcore
    \/ inspect_upf2plotcore
    \/ run_all_xspectra_core
    \/ inspect_all_xspectra_core
    \/ crystal_results
    \/ crystal_process_terminates

CrystalSpec == CrystalInit /\ [][CrystalNext]_vars

\* The crystal work chain for every space group, without a list of elements
\* and without the output of the powder spectra.
SymmetryInit ==
    /\ CrystalInit!2
    /\ CrystalInit!3
    /\ CrystalInit!4
    /\ CrystalInit!5
    /\ CrystalInit!6
    /\ CrystalInit!7
    /\ CrystalInit!8
    /\ CrystalInit!9
    /\ inputs \in {i \in CrystalInputs(SpaceGroups, {S_X}, {TRUE}) :
                      /\ ~i.return_all_powder_spectra
                      /\ i.elements_list = <<>>}

SymmetrySpec == SymmetryInit /\ [][CrystalNext]_vars

----------------------------------------------------------------------------
(* The launch of either work chain with inputs that may be invalid. *)

LaunchInit ==
    /\ inputs \in BaseLaunches \cup CrystalInputs({227}, {S_X, S_Si}, BOOLEAN)
    /\ pc = "validate_inputs"
    /\ ctx = [nodes |-> EmptyDict]
    /\ calcs = <<>>
    /\ out = EmptyDict
    /\ reports = {}
    /\ exit_code = "none"
    /\ powder_in = EmptyDict
    /\ powder_out = <<>>

LaunchNext ==
    \/ launch
    \/ crystal_launch
    \/ inputs.process_class = "XspectraBaseWorkChain" /\ Next
    \/ inputs.process_class = "XspectraCrystalWorkChain" /\ CrystalNext

LaunchSpec == LaunchInit /\ [][LaunchNext]_vars

----------------------------------------------------------------------------
(* Configuration errors. *)

\* The processes submitted so far by the work chain
Submitted == 1..Len(calcs)

\* The configuration errors of the two work chains
ConfigurationError ==
    IF inputs.process_class = "XspectraBaseWorkChain"
    THEN \/ inputs.eps_vectors = <<>>
         \/ ~inputs.has_core_wfc_data /\ ~inputs.has_upf2plotcore_code
         \/ inputs.abs_atom_marker \notin
                {inputs.structure.kinds[i].name :
                    i \in 1..Len(inputs.structure.kinds)}
    ELSE \/ inputs.abs_atom_marker \in
                {inputs.structure.kinds[i].name :
                    i \in 1..Len(inputs.structure.kinds)}
         \/ ~inputs.core.get_powder_spectrum

\* C11: a launch with a configuration error (base: empty eps_vectors, neither
\* core_wfc_data nor upf2plotcore_code, a marker that is no kind of the
\* structure; crystal: a marker that is a kind of the structure,
\* core.get_powder_spectrum False) is rejected with an error by the
\* validation, the work chain never starts and nothing is submitted.
C11_ConfigurationErrorsRejected ==
    ConfigurationError =>
        /\ pc \in {"validate_inputs", "rejected"}
        /\ pc = "rejected" => exit_code \notin {"none", NULL, "finished_ok"}
        /\ Submitted = {}
        /\ out = EmptyDict

C11_Witness ==
    /\ pc = "rejected"
    /\ ConfigurationError
    /\ inputs.process_class = "XspectraCrystalWorkChain"
    /\ ~inputs.core.get_powder_spectrum
    /\ inputs.abs_atom_marker = S_X
    /\ exit_code = "ValidationError: get_powder_spectrum must be True."

----------------------------------------------------------------------------
(* The fan-out of the crystal work chain. *)

\* The XspectraCoreWorkChains submitted so far
CoreWorkChains ==
    {pk \in 1..Len(calcs) : calcs[pk].process = "XspectraCoreWorkChain"}

\* The extraction jobs submitted so far
ShellJobs == {pk \in 1..Len(calcs) : calcs[pk].process = "ShellJob"}

\* The structure that the symmetry analysis is given
AnalysedStructure ==
    IF inputs.has_relax THEN [inputs.structure EXCEPT !.relaxed = TRUE]
    ELSE inputs.structure

\* The symmetry-inequivalent sites of the absorbing elements, from 0
AbsorbingSites ==
    LET absorbing ==
            IF inputs.elements_list = <<>>
            THEN {inputs.structure.kinds[i].symbol :
                     i \in 1..Len(inputs.structure.kinds)}
            ELSE {inputs.elements_list[i] : i \in 1..Len(inputs.elements_list)}
    IN {i \in 0..(Len(inputs.structure.sites) - 1) :
           inputs.structure.sites[i + 1] \in absorbing}

\* The canonical basis of the symmetry class of a space group
CanonicalBasis(n) ==
    IF 1 <= n /\ n <= 74 THEN <<EpsA, EpsB, EpsC>>
    ELSE IF 75 <= n /\ n <= 194 THEN <<EpsA, EpsC>>
    ELSE <<EpsA>>

\* The steps of the crystal work chain that follow the symmetry analysis
AfterAnalysis ==
    /\ Has(ctx, "structures_to_process")
    /\ inputs.process_class = "XspectraCrystalWorkChain"

\* C12: for every space group 1..230 exactly one of the three tests of
\* get_xspectra_structures applies and ctx.eps_vectors is the canonical basis
\* of the class (1..74: three axes, 75..194: [1,0,0] and [0,0,1], 195..230:
\* [1,0,0]); every XspectraCoreWorkChain is given that list.
C12_CanonicalBasisPerSpaceGroup ==
    LET n == inputs.structure.spacegroup_number
    IN /\ Cardinality({range \in {<<1, 75>>, <<75, 195>>, <<195, 231>>} :
                          InRange(n, range[1], range[2])}) = 1
       /\ AfterAnalysis =>
              /\ Has(ctx, "eps_vectors")
              /\ ctx.eps_vectors = CanonicalBasis(n)
       /\ \A pk \in CoreWorkChains :
              calcs[pk].eps_vectors = CanonicalBasis(n)

C12_Witness ==
    /\ inputs.structure.spacegroup_number = 194
    /\ Cardinality(CoreWorkChains) = 2
    /\ \A pk \in CoreWorkChains : calcs[pk].eps_vectors = <<EpsA, EpsC>>
    /\ exit_code = "finished_ok"

\* C13: with N inequivalent absorbing sites, the symmetry analysis leaves N
\* structures to process, run_all_xspectra_core submits N
\* XspectraCoreWorkChains, one for each site, and the reduction by element
\* is given N powder spectra under the site labels and returns at most N
\* final spectra.
C13_FanOutComplete ==
    LET N == Cardinality(AbsorbingSites)
        sites_of(pks) == {calcs[pk].structure.marked_site : pk \in pks}
        combined == UNION {out.final_spectra[e].combined :
                              e \in DOMAIN out.final_spectra}
    IN /\ AfterAnalysis =>
              /\ Len(ctx.structures_to_process) = N
              /\ {ctx.structures_to_process[i].key :
                     i \in 1..Len(ctx.structures_to_process)} =
                 {SiteLabel(i) : i \in AbsorbingSites}
       /\ Cardinality(CoreWorkChains) \in {0, N}
       /\ sites_of(CoreWorkChains) \in {{}, AbsorbingSites}
       /\ /\ AfterAnalysis
          /\ pc \in {"inspect_all_xspectra_core", "crystal_results"} \/ Has(out, "final_spectra")
          => Cardinality(CoreWorkChains) = N
       /\ Has(out, "final_spectra") =>
              /\ Cardinality(combined) = N
              /\ {item.key : item \in combined} =
                 {SiteLabel(i) : i \in AbsorbingSites}
              /\ Cardinality(DOMAIN out.final_spectra) <= N
              /\ DOMAIN out.final_spectra # {}
       /\ Has(out, "powder_spectra") =>
              Keys(out.powder_spectra) \in
                  {order \in [1..N -> {SiteLabel(i) : i \in AbsorbingSites}] :
                      \A i, j \in 1..N : order[i] = order[j] => i = j}

C13_Witness ==
    /\ Cardinality(AbsorbingSites) = 2
    /\ Cardinality(CoreWorkChains) = 2
    /\ Has(out, "final_spectra")
    /\ Cardinality(DOMAIN out.final_spectra) = 1
    /\ Has(out, "powder_spectra")

----------------------------------------------------------------------------
(* The fan-in of the crystal work chain. *)

\* The XspectraCoreWorkChain launched for the structure of a site label
LaunchedFor(label) ==
    CHOOSE pk \in CoreWorkChains :
        calcs[pk].structure = Get(ctx.structures_to_process, label)

\* inspect_all_xspectra_core has run
InspectedCore ==
    /\ AfterAnalysis
    /\ CoreWorkChains # {}
    /\ \/ pc = "crystal_results"
       \/ pc = "terminated" /\ exit_code # "ERROR_NO_GIPAW_INFO_FOUND"

C15_SiteFailureReportedAtFanIn ==
    /\ InspectedCore =>
           /\ \A pk \in CoreWorkChains : is_finished(calcs[pk])
           /\ exit_code = "ERROR_SUB_PROCESS_FAILED_XSPECTRA" <=>
                  \E pk \in CoreWorkChains : ~is_finished_ok(calcs[pk])
           /\ Cardinality(reports) =
                  Cardinality({pk \in CoreWorkChains : ~is_finished_ok(calcs[pk])})
    /\ /\ inputs.process_class = "XspectraCrystalWorkChain"
       /\ exit_code = "ERROR_SUB_PROCESS_FAILED_XSPECTRA"
       => /\ InspectedCore
          /\ ~Has(out, "final_spectra")
          /\ ~Has(out, "powder_spectra")
    /\ Has(out, "final_spectra") =>
           \A pk \in CoreWorkChains : is_finished_ok(calcs[pk])

C15_Witness ==
    /\ exit_code = "ERROR_SUB_PROCESS_FAILED_XSPECTRA"
    /\ \E pk \in CoreWorkChains : is_finished_ok(calcs[pk])
    /\ \E pk \in CoreWorkChains : ~is_finished_ok(calcs[pk])
    /\ ~Has(out, "final_spectra")

\* inspect_upf2plotcore has run
InspectedUpf2plotcore ==
    /\ ShellJobs # {}
    /\ \A pk \in ShellJobs : is_finished(calcs[pk])
    /\ pc # "inspect_upf2plotcore"

\* The extraction of some absorbing element found no core state
NoCoreStateFound ==
    \E i \in 1..Len(ctx.elements_list) :
        calcs[ctx.nodes[ShellJobLabel(ctx.elements_list[i])]].outputs.stdout =
            CoreWfcContent(0)

\* C18: when the output of upf2plotcore.sh for some absorbing element counts
\* zero core states, inspect_upf2plotcore returns ERROR_NO_GIPAW_INFO_FOUND
\* and no XspectraCoreWorkChain is ever submitted; when every count is not
\* zero the work chain goes on to run_all_xspectra_core.
C18_NoGipawInfoStopsFanOut ==
    /\ InspectedUpf2plotcore =>
           IF NoCoreStateFound
           THEN /\ pc = "terminated"
                /\ exit_code = "ERROR_NO_GIPAW_INFO_FOUND"
                /\ CoreWorkChains = {}
           ELSE /\ exit_code # "ERROR_NO_GIPAW_INFO_FOUND"
                /\ \/ pc = "run_all_xspectra_core"
                   \/ CoreWorkChains # {}
    /\ exit_code = "ERROR_NO_GIPAW_INFO_FOUND" =>
           InspectedUpf2plotcore /\ NoCoreStateFound

C18_Witness ==
    /\ exit_code = "ERROR_NO_GIPAW_INFO_FOUND"
    /\ Len(ctx.elements_list) = 2
    /\ calcs[ctx.nodes[ShellJobLabel(ctx.elements_list[1])]].outputs.stdout =
           CoreWfcContent(1)
    /\ calcs[ctx.nodes[ShellJobLabel(ctx.elements_list[2])]].outputs.stdout =
           CoreWfcContent(0)
    /\ CoreWorkChains = {}

----------------------------------------------------------------------------
(* on_terminated: the cleaning of the remote folders when a work chain has *)
(* ended.                                                                  *)

\* A work chain has at most this many called descendants.
MaxDescendants == 3

\* The exceptions that on_terminated catches
CleanErrors == {"IOError", "OSError", "KeyError"}

\* A called descendant of the work chain, with the calls of _clean() on its
\* remote folder counted.
Descendant(node_type) ==
    [node_type |-> node_type, remote_folder |-> "present", clean_calls |-> 0]

\* A loop that the first exception ends
CleanDescendants_StopsAtError(called_descendants, raised) ==
    [pk \in 1..Len(called_descendants) |->
        IF \/ called_descendants[pk].node_type # "CalcJobNode"
           \/ \E earlier \in 1..(pk - 1) :
                  /\ called_descendants[earlier].node_type = "CalcJobNode"
                  /\ raised[earlier] \in CleanErrors
        THEN called_descendants[pk]
        ELSE IF raised[pk] \in CleanErrors
        THEN [called_descendants[pk] EXCEPT !.clean_calls = @ + 1]
        ELSE [called_descendants[pk] EXCEPT !.clean_calls = @ + 1,
                                            !.remote_folder = "cleaned"]]

\* The loop over the called descendants; raised[pk] is what cleaning the
\* remote folder of pk raises, "" when it raises nothing.
CleanDescendants(called_descendants, raised) ==
    [pk \in 1..Len(called_descendants) |->
        IF called_descendants[pk].node_type # "CalcJobNode"
        THEN called_descendants[pk]
        ELSE IF raised[pk] \in CleanErrors
        THEN [called_descendants[pk] EXCEPT !.clean_calls = @ + 1]
        ELSE [called_descendants[pk] EXCEPT !.clean_calls = @ + 1,
                                            !.remote_folder = "cleaned"]]

\* cleaned_calcs: the pks of the remote folders cleaned by the loop
CleanedCalcs(called_descendants, raised) ==
    SelectSeq([pk \in 1..Len(called_descendants) |-> pk],
              LAMBDA pk : /\ called_descendants[pk].node_type = "CalcJobNode"
                          /\ raised[pk] \notin CleanErrors)

\* The body of on_terminated, the same in both work chains
CleanWorkdir ==
    IF inputs.clean_workdir = FALSE
    THEN /\ reports' = reports \cup
                {[message |-> "remote folders will not be cleaned",
                  cleaned_calcs |-> <<>>]}
         /\ UNCHANGED calcs
    ELSE \E raised \in [1..Len(calcs) -> {""} \cup CleanErrors] :
            /\ calcs' = CleanDescendants(calcs, raised)
            /\ reports' =
                   IF Len(CleanedCalcs(calcs, raised)) > 0
                   THEN reports \cup
                            {[message |-> "cleaned remote folders of calculations",
                              cleaned_calcs |-> CleanedCalcs(calcs, raised)]}
                   ELSE reports

on_terminated ==
    /\ pc = "on_terminated"
    /\ inputs.process_class = "XspectraBaseWorkChain"
    /\ CleanWorkdir
    /\ pc' = "terminated"
    /\ UNCHANGED <<inputs, ctx, out, exit_code, fn_vars>>

crystal_on_terminated ==
    /\ pc = "on_terminated"
    /\ inputs.process_class = "XspectraCrystalWorkChain"
    /\ CleanWorkdir
    /\ pc' = "terminated"
    /\ UNCHANGED <<inputs, ctx, out, exit_code, fn_vars>>

\* A work chain that has ended, with any called descendants
CleanInit ==
    /\ inputs \in [process_class : {"XspectraBaseWorkChain",
                                    "XspectraCrystalWorkChain"},
                   clean_workdir : BOOLEAN]
    /\ pc = "on_terminated"
    /\ ctx = [nodes |-> EmptyDict]
    /\ calcs \in UNION {[1..n -> {Descendant("CalcJobNode"),
                                  Descendant("WorkChainNode")}] :
                           n \in 0..MaxDescendants}
    /\ out = EmptyDict
    /\ reports = {}
    /\ exit_code \in {"finished_ok", "ERROR_SUB_PROCESS_FAILED_XSPECTRA"}
    /\ powder_in = EmptyDict
    /\ powder_out = <<>>

CleanNext ==
    \/ on_terminated
    \/ crystal_on_terminated

CleanSpec == CleanInit /\ [][CleanNext]_vars

----------------------------------------------------------------------------
(* Exit codes and cleaning. *)

\* The SCF sub process failed
ScfFailed ==
    /\ Has(ctx, "scf_workchain")
    /\ is_finished(calcs[ctx.scf_workchain])
    /\ ~is_finished_ok(calcs[ctx.scf_workchain])

\* C16: each stage in which a sub process fails fatally has an exit code of
\* its own: a work chain that has ended after a failure of the SCF has the
\* code of the SCF stage, after a fatal failure of a production job the
\* code of the production stage, and after a failure of a replot a code
\* that is neither of these nor a success.
C16_StagesHaveDistinctCodes ==
    pc = "terminated" =>
        /\ ScfFailed => exit_code = "ERROR_SUB_PROCESS_FAILED_SCF"
        /\ (\E pk \in ProdCalcs : FailedFatally(pk)) =>
               exit_code = "ERROR_SUB_PROCESS_FAILED_XSPECTRA"
        /\ (\E pk \in PlotCalcs : ReplotFailed(pk)) =>
               exit_code \notin {"finished_ok", "ERROR_SUB_PROCESS_FAILED_SCF",
                                 "ERROR_SUB_PROCESS_FAILED_XSPECTRA"}

\* C17: on_terminated with clean_workdir False cleans no remote folder; with
\* clean_workdir True it calls _clean() once on the remote folder of every
\* CalcJobNode among the called descendants, also after an IOError, OSError
\* or KeyError of an earlier one, and it ends without changing the exit code.
C17_CleanState ==
    pc = "terminated" /\ Has(inputs, "clean_workdir") =>
        \A pk \in 1..Len(calcs) :
            /\ calcs[pk].clean_calls =
                   IF inputs.clean_workdir /\ calcs[pk].node_type = "CalcJobNode"
                   THEN 1 ELSE 0
            /\ ~inputs.clean_workdir => calcs[pk].remote_folder = "present"
            /\ calcs[pk].node_type # "CalcJobNode" =>
                   calcs[pk].remote_folder = "present"

C17_CleanupIsBestEffort ==
    /\ []C17_CleanState
    /\ [][pc = "on_terminated" =>
              /\ pc' = "terminated"
              /\ exit_code' = exit_code
              /\ out' = out]_vars

C17_Witness ==
    /\ pc = "terminated"
    /\ inputs.clean_workdir
    /\ Len(calcs) = 2
    /\ calcs[1].clean_calls = 1 /\ calcs[1].remote_folder = "present"
    /\ calcs[2].clean_calls = 1 /\ calcs[2].remote_folder = "cleaned"
    /\ exit_code = "finished_ok"

----------------------------------------------------------------------------
(* The restart policy and the accepted set. *)

\* The outcome that the restart policy gives to an exit status
Classified(exit_status) ==
    IF exit_status = 0 THEN "accept"
    ELSE IF exit_status = 400 THEN "restart"
    ELSE "fail"

\* C19: the outcome of a production job is a function of its exit status
\* alone (0: accepted, 400: to restart, any other: fatal), and an accepted
\* job keeps being classified as accepted: it is in the accepted set once, it
\* is not in the restart queue and it is never resubmitted.
C19_ClassificationIsIdempotent ==
    /\ \A pk \in ProdCalcs :
           is_finished(calcs[pk]) =>
               ProdOutcome(calcs[pk]) = Classified(calcs[pk].exit_status)
    /\ Has(ctx, "finished_lanczos") =>
           \E lin \in {Lineage} :
               \A i \in 1..Len(ctx.finished_lanczos) :
                   \E pk \in {ctx.finished_lanczos[i]} :
                       /\ ProdOutcome(calcs[pk]) = "accept"
                       /\ calcs[pk].exit_status = 0
                       /\ SuccessorsIn(lin, pk) = {}
                       /\ \A j \in 1..Len(ctx.lanczos_to_restart) :
                              ctx.lanczos_to_restart[j] # pk
                       /\ \A j \in 1..Len(ctx.finished_lanczos) :
                              ctx.finished_lanczos[j] = pk => j = i

C19_Witness ==
    /\ AllComplete
    /\ Len(ctx.finished_lanczos) = 2
    /\ Iteration(ctx.finished_lanczos[1]) = 1
    /\ Iteration(ctx.finished_lanczos[2]) = 3
    /\ Cardinality(ProdCalcs) = 4

\* The accepted set holds at most one job of each vector, and no job of a
\* vector was submitted after the accepted one.
C20_OneAcceptedJobPerVector ==
    Has(ctx, "finished_lanczos") =>
        \E lin \in {Lineage} :
            /\ \A k \in 0..(Len(inputs.eps_vectors) - 1) :
                   Cardinality(AcceptedFor(lin, k)) <= 1
            /\ \A i \in 1..Len(ctx.finished_lanczos) :
                   \A q \in DOMAIN lin :
                       lin[q][1] = lin[ctx.finished_lanczos[i]][1] =>
                           q <= ctx.finished_lanczos[i]

\* C20: ctx.finished_lanczos only grows (a step leaves the jobs it holds in
\* place and may add jobs at its end), it holds at most one job of each
\* polarization vector, and once it holds a job of a vector no further
\* production job of that vector is submitted.
C20_AcceptedSetGrows ==
    /\ []C20_OneAcceptedJobPerVector
    /\ [][Has(ctx, "finished_lanczos") =>
              /\ Has(ctx', "finished_lanczos")
              /\ Len(ctx'.finished_lanczos) >= Len(ctx.finished_lanczos)
              /\ SubSeq(ctx'.finished_lanczos, 1, Len(ctx.finished_lanczos)) =
                     ctx.finished_lanczos]_vars

C20_Witness ==
    /\ pc = "run_all_xspectra_plot"
    /\ Len(ctx.finished_lanczos) = 2
    /\ Position(ctx.finished_lanczos[1]) = 1
    /\ Iteration(ctx.finished_lanczos[1]) = 1
    /\ Position(ctx.finished_lanczos[2]) = 0
    /\ Iteration(ctx.finished_lanczos[2]) = 2
    /\ Cardinality(ProdCalcs) = 3

----------------------------------------------------------------------------
(* C21: the first round of run_all_xspectra_prod submits one job for each  *)
(* vector of eps_vectors, in their order, labelled xas_prod_<k>_iter_1     *)
(* with k the 0-based position of the vector; every later round finds      *)
(* ctx.lanczos_to_restart non-empty and submits one restart for each job   *)
(* listed there, in that order, and nothing for a fresh vector.            *)

\* The processes the step being taken submits, in order.
NewCalcs == SubSeq(calcs', Len(calcs) + 1, Len(calcs'))

C21_RoundSubmits ==
    pc = "run_all_xspectra_prod" /\ pc' # pc =>
        \E new \in {NewCalcs} :
            IF ProdCalcs = {}
            THEN /\ Len(new) = Len(inputs.eps_vectors)
                 /\ \A i \in 1..Len(new) :
                        /\ new[i].process = "xs_prod"
                        /\ new[i].label = IterLabel(ProdLabel(i - 1), 1)
                        /\ new[i].xepsilon = inputs.eps_vectors[i]
                        /\ new[i].restart_mode = NULL
            ELSE /\ Len(ctx.lanczos_to_restart) > 0
                 /\ Len(new) = Len(ctx.lanczos_to_restart)
                 /\ \E lin \in {Lineage} :
                    \A i \in 1..Len(new) :
                        \E parent \in {ctx.lanczos_to_restart[i]} :
                            /\ new[i].process = "xs_prod"
                            /\ TimedOut(parent)
                            /\ new[i].restart_mode = "restart"
                            /\ new[i].xepsilon = calcs[parent].xepsilon
                            /\ new[i].label =
                                   IterLabel(ProdLabel(lin[parent][1]),
                                             lin[parent][2] + 1)

C21_FreshVectorsOnFirstPassOnly == [][C21_RoundSubmits]_vars

\* Of two vectors one was restarted, in a second round of one job.
C21_Witness ==
    /\ Len(inputs.eps_vectors) = 2
    /\ pc = "inspect_all_xspectra_prod"
    /\ Len(ctx.xspectra_calc_labels) = 1
    /\ \E lin \in {Lineage} :
           /\ Cardinality({pk \in ProdCalcs : lin[pk][2] = 1}) = 2
           /\ Cardinality({pk \in ProdCalcs : lin[pk][2] = 2}) = 1

----------------------------------------------------------------------------
(* C22: a production job of the first pass has the remote folder of the    *)
(* SCF work chain as its parent folder; a restart has the remote folder of *)
(* the attempt it restarts, the one of the same vector with the iteration  *)
(* number one less, which ran out of walltime.                             *)

C22_RestartsAreChained ==
    \E lin \in {Lineage} :
    \A pk \in ProdCalcs :
        \E parent \in {calcs[pk].parent_folder} :
            IF lin[pk][2] = 1
            THEN /\ parent = ctx.scf_workchain
                 /\ calcs[parent].process = "scf"
                 /\ is_finished_ok(calcs[parent])
            ELSE /\ parent \in ProdCalcs
                 /\ parent < pk
                 /\ lin[parent] = <<lin[pk][1], lin[pk][2] - 1>>
                 /\ TimedOut(parent)

\* Both vectors were restarted and one of them a second time.
C22_Witness ==
    \E lin \in {Lineage} :
        /\ Cardinality({pk \in ProdCalcs : lin[pk][2] = 2}) = 2
        /\ \E pk \in ProdCalcs :
               /\ lin[pk][2] = 3
               /\ lin[calcs[pk].parent_folder][2] = 2

----------------------------------------------------------------------------
(* C23: the base work chain runs SCF, then the extraction of the core      *)
(* wavefunction when none was given, then the production loop, then the    *)
(* replot stage, then results.  Production jobs exist only after the SCF   *)
(* work chain finished OK, replot jobs only after the production loop      *)
(* ended in AllComplete, outputs only after the replot jobs ended; an SCF  *)
(* failure ends the work chain with ERROR_SUB_PROCESS_FAILED_SCF, with     *)
(* nothing else submitted and no output.                                   *)

\* The place of a process in the pipeline.
Stage(calc) ==
    CASE calc.process = "scf" -> 1
      [] calc.process = "upf2plotcore" -> 2
      [] calc.process = "xs_prod" -> 3
      [] calc.process = "xs_plot" -> 4

Upf2plotcoreCalcs == {pk \in 1..Len(calcs) : calcs[pk].process = "upf2plotcore"}

C23_PipelineIsOrdered ==
    /\ \A p, q \in 1..Len(calcs) :
           Stage(calcs[p]) < Stage(calcs[q]) => p < q
    /\ Cardinality({pk \in 1..Len(calcs) : calcs[pk].process = "scf"}) <= 1
    /\ Upf2plotcoreCalcs \cup ProdCalcs # {} =>
           /\ calcs[1].process = "scf"
           /\ is_finished_ok(calcs[1])
    /\ Upf2plotcoreCalcs # {} => ~inputs.has_core_wfc_data
    /\ ProdCalcs # {} =>
           /\ ~inputs.has_core_wfc_data => Cardinality(Upf2plotcoreCalcs) = 1
           /\ \A pk \in Upf2plotcoreCalcs : is_finished(calcs[pk])
    /\ PlotCalcs # {} =>
           /\ AllComplete
           /\ \A pk \in ProdCalcs : is_finished(calcs[pk])
    /\ DOMAIN out # {} =>
           /\ PlotCalcs # {}
           /\ \A pk \in PlotCalcs : is_finished(calcs[pk])
    /\ ScfFailed /\ pc # "inspect_scf" =>
           /\ pc = "terminated"
           /\ exit_code = "ERROR_SUB_PROCESS_FAILED_SCF"
           /\ Len(calcs) = 1
           /\ DOMAIN out = {}

C23_StagesInOrder ==
    /\ []C23_PipelineIsOrdered
    /\ [][pc = "terminated" => UNCHANGED <<pc, ctx, calcs, out, exit_code>>]_vars

\* Every stage ran: the extraction, two rounds of production, the replots
\* and results.
C23_Witness ==
    /\ exit_code = "finished_ok"
    /\ Upf2plotcoreCalcs # {}
    /\ \E pk \in ProdCalcs : TimedOut(pk)
    /\ PlotCalcs # {}

----------------------------------------------------------------------------
(* The production loop with jobs that may run out of walltime at every     *)
(* attempt.                                                                *)

\* A run for several vectors is followed up to the attempts with this
\* iteration number.
MaxIterations == 3

\* The exit statuses a process may end with, whatever its iteration.
AnyExitStatuses(calc) ==
    {0, ERROR_OUTPUT_STDOUT_INCOMPLETE} \cup
    IF calc.process = "xs_prod" THEN {ERROR_OUT_OF_WALLTIME} ELSE {}

process_terminates_anyhow ==
    \E pk \in 1..Len(calcs) :
        /\ ~is_finished(calcs[pk])
        /\ \E status \in AnyExitStatuses(calcs[pk]) :
               calcs' = [calcs EXCEPT ![pk].process_state = "finished",
                                      ![pk].exit_status = status]
        /\ UNCHANGED <<inputs, pc, ctx, out, reports, exit_code, fn_vars>>

\* A run for a single vector is followed up to the attempts with this
\* iteration number, which has two digits.
MaxIterationsOfOne == 11

\* The iteration number up to which the run is followed.
IterationsFollowed ==
    IF Len(inputs.eps_vectors) = 1 THEN MaxIterationsOfOne ELSE MaxIterations

\* run_all_xspectra_prod, as long as the jobs to restart are attempts
\* before the last one followed.
run_all_xspectra_prod_followed ==
    /\ pc = "run_all_xspectra_prod"
    /\ \A i \in 1..Len(ctx.lanczos_to_restart) :
           ParseInt(Split(calcs[ctx.lanczos_to_restart[i]].label, "_")[5])
               < IterationsFollowed
    /\ run_all_xspectra_prod

RetryNext ==
    \/ setup
    \/ run_scf
    \/ inspect_scf
    \/ if_should_run_upf2plotcore
    \/ run_upf2plotcore
    \/ while_should_repeat_xs_prod
    \/ run_all_xspectra_prod_followed
    \/ inspect_all_xspectra_prod
    \/ run_all_xspectra_plot
    \/ inspect_all_xspectra_plot
    \/ results
    \/ process_terminates_anyhow

RetrySpec == LoopInit /\ [][RetryNext]_vars

----------------------------------------------------------------------------
(* C24 as claimed: a job that ran out of walltime is restarted every time, *)
(* and while every attempt made for some vector has run out of walltime    *)
(* the production loop ends neither in AllComplete nor with an exit code.  *)

\* The vectors every finished attempt of which ran out of walltime, one at
\* least having done so (lin is Lineage).
AlwaysTimedOut(lin) ==
    {k \in 0..(Len(inputs.eps_vectors) - 1) :
        /\ \E pk \in ProdCalcs : lin[pk][1] = k /\ TimedOut(pk)
        /\ \A pk \in ProdCalcs :
               lin[pk][1] = k /\ is_finished(calcs[pk]) => TimedOut(pk)}

\* The loop goes on: every job that timed out is restarted or about to be.
LoopGoesOn(lin) ==
    /\ ~AllComplete
    /\ InProductionLoop
    /\ exit_code = "none"
    /\ \A pk \in ProdCalcs :
           TimedOut(pk) => \/ SuccessorsIn(lin, pk) # {}
                           \/ pk \in CurrentRound

C24_TimeoutAlwaysRetried ==
    \E lin \in {Lineage} : AlwaysTimedOut(lin) # {} => LoopGoesOn(lin)

(* C24 as amended: there is no ceiling on the restarts.  While every       *)
(* attempt made for some vector has run out of walltime and no production  *)
(* job has failed with another exit status, the production loop ends       *)
(* neither in AllComplete nor with an exit code, and every job that timed  *)
(* out, whatever its iteration number, is restarted or about to be.        *)

C24_NoRetryCeiling ==
    \E lin \in {Lineage} :
        /\ AlwaysTimedOut(lin) # {}
        /\ \A pk \in ProdCalcs : ~FailedFatally(pk)
        => LoopGoesOn(lin)

\* The attempt with the iteration number MaxIterationsOfOne timed out as
\* the ones before it, and the loop is about to restart it.
C24_Witness ==
    \E lin \in {Lineage} :
    \E pk \in ProdCalcs :
        /\ lin[pk][2] = MaxIterationsOfOne
        /\ TimedOut(pk)
        /\ lin[pk][1] \in AlwaysTimedOut(lin)
        /\ pc = "run_all_xspectra_prod"
        /\ ctx.lanczos_to_restart = <<pk>>

----------------------------------------------------------------------------
(* C25: run_all_xspectra_plot submits, in one batch, one replot job for    *)
(* each job of ctx.finished_lanczos and for no other job; the replot job   *)
(* has the accepted job's remote folder as its parent folder, the          *)
(* epsilon_vector of the accepted job's output parameters as its xepsilon, *)
(* and goes to the context under '<label>_plot', with <label> the sequence *)
(* label of the accepted job.                                              *)

\* The replot jobs whose parent folder is the one of the job pk.
ReplotsOf(pk) == {q \in PlotCalcs : calcs[q].parent_folder = pk}

ReplotStageStarted ==
    pc \in {"inspect_all_xspectra_plot", "results"} \/ PlotCalcs # {}

C25_OneReplotPerAcceptedJob ==
    ReplotStageStarted =>
        \E n \in {Len(ctx.finished_lanczos)} :
            /\ PlotCalcs = (Len(calcs) - n + 1)..Len(calcs)
            /\ \A i \in 1..n :
                   \E accepted \in {ctx.finished_lanczos[i]} :
                       /\ is_finished_ok(calcs[accepted])
                       /\ ReplotsOf(accepted) = {Len(calcs) - n + i}
                       /\ \A q \in ReplotsOf(accepted) :
                              /\ calcs[q].xepsilon = epsilon_vector(calcs[accepted])
                              /\ ctx.nodes[PlotKey(SequenceLabel(calcs[accepted]))] = q
                              /\ calcs[q].restart_mode = NULL
            /\ \A q \in PlotCalcs :
                   \E i \in 1..n : calcs[q].parent_folder = ctx.finished_lanczos[i]

C25_ReplotsInOneBatch ==
    /\ []C25_OneReplotPerAcceptedJob
    /\ [][PlotCalcs # {} => Len(calcs') = Len(calcs)]_vars

\* Two accepted jobs, the second one a restart, and their two replot jobs.
C25_Witness ==
    /\ Cardinality(PlotCalcs) = 2
    /\ \E lin \in {Lineage} :
           \E q \in PlotCalcs : lin[calcs[q].parent_folder][2] = 2
    /\ \E q \in PlotCalcs : calcs[calcs[q].parent_folder].restart_mode = NULL

----------------------------------------------------------------------------
(* The base work chain from its launch to on_terminated: once the outline  *)
(* has ended the engine calls on_terminated, which sees the processes the  *)
(* work chain called as self.node.called_descendants.                      *)

\* self.node.called_descendants: the SCF is a work chain, the others are
\* calculation jobs
called_descendants ==
    [pk \in 1..Len(calcs) |->
        Descendant(IF calcs[pk].process = "scf" THEN "WorkChainNode"
                   ELSE "CalcJobNode")]

outline_ended ==
    /\ pc = "terminated"
    /\ \A pk \in 1..Len(calcs) : "process" \in DOMAIN calcs[pk]
    /\ calcs' = called_descendants
    /\ pc' = "on_terminated"
    /\ UNCHANGED <<inputs, ctx, out, reports, exit_code, fn_vars>>

\* The work chain launched for one vector, with or without cleaning.
FrameInit ==
    /\ inputs \in [eps_vectors : {<<EpsC>>}, collect_powder : BOOLEAN,
                   has_core_wfc_data : BOOLEAN,
                   process_class : {"XspectraBaseWorkChain"},
                   clean_workdir : BOOLEAN]
    /\ pc = "setup"
    /\ ctx = [nodes |-> EmptyDict]
    /\ calcs = <<>>
    /\ out = EmptyDict
    /\ reports = {}
    /\ exit_code = "none"
    /\ powder_in = EmptyDict
    /\ powder_out = <<>>

\* The outline runs until it has ended; on_terminated follows.
FrameNext ==
    \/ pc \notin {"terminated", "on_terminated"} /\ Next
    \/ outline_ended
    \/ on_terminated

FrameSpec == FrameInit /\ [][FrameNext]_vars

----------------------------------------------------------------------------
(* C26: ctx.lanczos_to_restart, ctx.finished_lanczos and                   *)
(* ctx.all_lanczos_computed are initialised by setup and changed by no     *)
(* step other than run_all_xspectra_prod and inspect_all_xspectra_prod:    *)
(* run_scf, inspect_scf, run_upf2plotcore, run_all_xspectra_plot,          *)
(* inspect_all_xspectra_plot, results, on_terminated and the ending of a   *)
(* called process leave them as they are.                                  *)

\* What the production loop owns, in the context c.
LoopOwned(c) ==
    IF Has(c, "lanczos_to_restart")
    THEN <<c.lanczos_to_restart, c.finished_lanczos, c.all_lanczos_computed>>
    ELSE <<>>

C26_OnlyTheLoopWrites ==
    /\ pc = "setup" /\ pc' # pc => LoopOwned(ctx') = <<<<>>, <<>>, FALSE>>
    /\ LoopOwned(ctx') # LoopOwned(ctx) =>
           \/ pc = "setup"
           \/ /\ pc \in {"run_all_xspectra_prod", "inspect_all_xspectra_prod"}
              /\ pc' # pc

C26_LoopOwnsItsLists == [][C26_OnlyTheLoopWrites]_vars

\* The whole outline and on_terminated have run after a restart: both lists
\* name a job and a remote folder was cleaned.
C26_Witness ==
    /\ pc = "terminated"
    /\ exit_code = "finished_ok"
    /\ \E pk \in 1..Len(calcs) :
           /\ "clean_calls" \in DOMAIN calcs[pk]
           /\ calcs[pk].clean_calls = 1
    /\ Len(ctx.lanczos_to_restart) > 0
    /\ Len(ctx.finished_lanczos) > 0
    /\ ctx.all_lanczos_computed

----------------------------------------------------------------------------
(* C27: every production job is labelled xas_prod_<k>_iter_<i>, with k the *)
(* 0-based position in eps_vectors of the vector it computes and i >= 1; a *)
(* restart has the k of the attempt it restarts and the next i; no two     *)
(* production jobs have the same label; and output_parameters_xspectra     *)
(* names each accepted job by xas_prod_<k>.                                *)

C27_LabelsKeepLineage ==
    \E lin \in {Lineage} :
        /\ \A pk \in ProdCalcs :
               /\ calcs[pk].label = IterLabel(ProdLabel(lin[pk][1]), lin[pk][2])
               /\ lin[pk][1] \in 0..(Len(inputs.eps_vectors) - 1)
               /\ calcs[pk].xepsilon = inputs.eps_vectors[lin[pk][1] + 1]
               /\ lin[pk][2] >= 1
               /\ lin[pk][2] > 1 =>
                      /\ calcs[pk].parent_folder \in ProdCalcs
                      /\ lin[calcs[pk].parent_folder] =
                             <<lin[pk][1], lin[pk][2] - 1>>
        /\ \A p, q \in ProdCalcs : calcs[p].label = calcs[q].label => p = q
        /\ Has(out, "output_parameters_xspectra") =>
               \A label \in DOMAIN out.output_parameters_xspectra :
                   \E pk \in {out.output_parameters_xspectra[label]} :
                       /\ pk \in ProdCalcs
                       /\ label = ProdLabel(lin[pk][1])

\* The eleventh attempt for the first vector: xas_prod_0_iter_11.
C27_Witness ==
    \E pk \in ProdCalcs :
        /\ calcs[pk].label = <<"x", "a", "s", "_", "p", "r", "o", "d", "_", "0",
                               "_", "i", "t", "e", "r", "_", "1", "1">>
        /\ calcs[calcs[pk].parent_folder].label =
               <<"x", "a", "s", "_", "p", "r", "o", "d", "_", "0",
                 "_", "i", "t", "e", "r", "_", "1", "0">>

----------------------------------------------------------------------------
(* xiabs for every structure and marker. *)

\* A structure has at most this many kinds.
MaxKinds == 3

\* The lists of one to MaxKinds kind names, each name once, in any order
KindNameLists ==
    {list \in UNION {[1..n -> {S_O, S_S, S_Si, S_Si1, S_X}] : n \in 1..MaxKinds} :
        \A i, j \in DOMAIN list : list[i] = list[j] => i = j}

\* The structures with these kinds and a marker that names one of them
XiabsInputs ==
    UNION {{[structure |-> [kinds |-> [i \in DOMAIN names |->
                                          Kind(names[i], names[i])]],
             abs_atom_marker |-> names[m]] : m \in DOMAIN names} :
              names \in KindNameLists}

XiabsInit ==
    /\ inputs \in XiabsInputs
    /\ pc = "xiabs"
    /\ ctx = [nodes |-> EmptyDict]
    /\ calcs = <<>>
    /\ out = EmptyDict
    /\ reports = {}
    /\ exit_code = "none"
    /\ powder_in = EmptyDict
    /\ powder_out = <<>>

\* Both work chains compute xiabs for the structure and the marker.
set_xiabs ==
    /\ pc = "xiabs"
    /\ out' = [base |-> base_xiabs(inputs.structure, inputs.abs_atom_marker),
               crystal |-> abs_species_index(inputs.structure,
                                             inputs.abs_atom_marker)]
    /\ pc' = "xiabs_set"
    /\ UNCHANGED <<inputs, ctx, calcs, reports, exit_code, fn_vars>>

XiabsNext == set_xiabs

XiabsSpec == XiabsInit /\ [][XiabsNext]_vars

----------------------------------------------------------------------------
(* C28: xiabs is the 1-based position of abs_atom_marker among the kind    *)
(* names of the structure in sorted order, and the counter loop of the     *)
(* base work chain and sorted(...).index(marker) + 1 of the crystal work   *)
(* chain give the same value, for kind names that differ and contain the   *)
(* marker.                                                                 *)

\* The names of the kinds that come before the marker in sorted order.
NamesBeforeMarker ==
    {i \in 1..Len(inputs.structure.kinds) :
        StrLess(inputs.structure.kinds[i].name, inputs.abs_atom_marker)}

C28_XiabsIsSortedPosition ==
    pc = "xiabs_set" =>
        /\ out.base = Cardinality(NamesBeforeMarker) + 1
        /\ out.crystal = out.base

\* The kinds X, Si1, Si with the marker Si1: the sorted names are Si, Si1, X
\* and xiabs is 2.
C28_Witness ==
    /\ pc = "xiabs_set"
    /\ KindNames(inputs.structure) = <<S_X, S_Si1, S_Si>>
    /\ inputs.abs_atom_marker = S_Si1
    /\ out.base = 2
    /\ out.crystal = 2

----------------------------------------------------------------------------
(* The crystal work chain when the symmetry analysis reports a space-group *)
(* number that none of the three tests of get_xspectra_structures covers.  *)

\* The numbers next to the range 1..230 on either side
OutOfRangeSpaceGroups == {0, 231}

\* Structures with the first and the last space group and with the numbers
\* next to them.
UnclassifiedInit ==
    /\ CrystalInit!2
    /\ CrystalInit!3
    /\ CrystalInit!4
    /\ CrystalInit!5
    /\ CrystalInit!6
    /\ CrystalInit!7
    /\ CrystalInit!8
    /\ CrystalInit!9
    /\ inputs \in {i \in CrystalInputs(OutOfRangeSpaceGroups \cup {1, 230},
                                       {S_X}, {TRUE}) :
                      ~i.return_all_powder_spectra}

UnclassifiedSpec == UnclassifiedInit /\ [][CrystalNext]_vars

----------------------------------------------------------------------------
(* C29: when the space-group number is outside 1..230 the crystal work     *)
(* chain sets no list of polarization vectors, submits no                  *)
(* XspectraCoreWorkChain, never finishes successfully, and when it has     *)
(* ended it has ended with an error: an exception raised by                *)
(* run_all_xspectra_core, or the exit code of an earlier step.             *)

SpaceGroupOutOfRange ==
    inputs.structure.spacegroup_number \notin SpaceGroups

C29_OutOfRangeIsAnError ==
    SpaceGroupOutOfRange =>
        /\ ~Has(ctx, "eps_vectors")
        /\ CoreWorkChains = {}
        /\ pc \notin {"inspect_all_xspectra_core", "crystal_results"}
        /\ exit_code # "finished_ok"
        /\ ~Has(out, "final_spectra")
        /\ pc = "terminated" =>
               exit_code \in {"excepted", "ERROR_SUB_PROCESS_FAILED_RELAX",
                              "ERROR_NO_GIPAW_INFO_FOUND"}

C29_NeverAcceptedSilently ==
    /\ []C29_OutOfRangeIsAnError
    /\ [][pc = "terminated" => UNCHANGED <<pc, calcs, out, exit_code>>]_vars

\* Space group 231: the extraction jobs found core states and
\* run_all_xspectra_core raised at the first site.
C29_Witness ==
    /\ inputs.structure.spacegroup_number = 231
    /\ pc = "terminated"
    /\ exit_code = "excepted"
    /\ ShellJobs # {}
    /\ Has(ctx, "structures_to_process")
    /\ Len(ctx.structures_to_process) = MaxSites

----------------------------------------------------------------------------
(* The core-hole treatment of each site, and the starting magnetization    *)
(* of its absorbing species.                                               *)

\* The dictionaries of core-hole treatments a caller may give
CoreHoleTreatments ==
    {EmptyDict,
     S_Si :> "xch_smear",
     S_O :> "xch_fixed",
     (S_O :> "xch_smear") @@ (S_Si :> "half")}

\* The SCF parameters a caller may give: none, or a starting magnetization
\* of the second species
ScfParameters ==
    {[SYSTEM |-> EmptyDict],
     [SYSTEM |-> (StartingMagnetization(2) :> 0)]}

\* The inputs of the crystal work chain, without and with the optional
\* input core_hole_treatments
TreatmentInputs ==
    LET given == {[i EXCEPT !.core.scf.pw.parameters = p] :
                     i \in {j \in CrystalInputs({1, 230}, {S_X}, {TRUE}) :
                               ~j.return_all_powder_spectra},
                     p \in ScfParameters}
    IN given \cup {Put(i, "core_hole_treatments", t) :
                      i \in given, t \in CoreHoleTreatments}

TreatmentInit ==
    /\ CrystalInit!2
    /\ CrystalInit!3
    /\ CrystalInit!4
    /\ CrystalInit!5
    /\ CrystalInit!6
    /\ CrystalInit!7
    /\ CrystalInit!8
    /\ CrystalInit!9
    /\ inputs \in TreatmentInputs

TreatmentSpec == TreatmentInit /\ [][CrystalNext]_vars

\* The element of the absorbing atom of the structure of a site
AbsorbingElement(structure) ==
    structure.marked_in.sites[structure.marked_site + 1]

\* The treatment configured for an element, 'full' where there is none
ConfiguredTreatment(element) ==
    IF /\ "core_hole_treatments" \in DOMAIN inputs
       /\ element \in DOMAIN inputs.core_hole_treatments
    THEN inputs.core_hole_treatments[element]
    ELSE "full"

\* The position of the marker among the sorted kind names of a structure
AbsorbingSpeciesIndex(structure) ==
    Cardinality({i \in 1..Len(structure.kinds) :
                    StrLess(structure.kinds[i].name, inputs.abs_atom_marker)}) + 1

\* The starting magnetization of the n-th species is the one the caller gave
AsGiven(system, n) ==
    LET given == inputs.core.scf.pw.parameters.SYSTEM
        key == StartingMagnetization(n)
    IN /\ Has(system, key) <=> Has(given, key)
       /\ Has(system, key) => system[key] = given[key]

\* C30: every XspectraCoreWorkChain is submitted with the core-hole
\* treatment configured for the element of its absorbing atom, and with
\* 'full' when core_hole_treatments is absent or has no entry for the
\* element; the starting magnetization of the absorbing species is set to 1
\* when the treatment is 'xch_smear', and no starting magnetization is set
\* or changed otherwise.
C30_TreatmentAndMagnetization ==
    \A pk \in 1..Len(calcs) :
        calcs[pk].process = "XspectraCoreWorkChain" =>
            LET structure == calcs[pk].structure
                system == calcs[pk].scf_parameters.SYSTEM
                treatment == ConfiguredTreatment(AbsorbingElement(structure))
                species == AbsorbingSpeciesIndex(structure)
            IN /\ system[S_treatment] = treatment
               /\ \A n \in 1..Len(structure.kinds) :
                      IF treatment = "xch_smear" /\ n = species
                      THEN /\ Has(system, StartingMagnetization(n))
                           /\ system[StartingMagnetization(n)] = 1
                      ELSE AsGiven(system, n)

\* A silicon oxide with the treatments {'O': 'xch_smear', 'Si': 'half'}:
\* the work chain of the oxygen site has the magnetization of the third
\* species set to 1 and that of the second as given, the work chain of the
\* silicon site has none set.
C30_Witness ==
    /\ Has(inputs, "core_hole_treatments")
    /\ inputs.core_hole_treatments = (S_O :> "xch_smear") @@ (S_Si :> "half")
    /\ Has(inputs.core.scf.pw.parameters.SYSTEM, StartingMagnetization(2))
    /\ \E a, b \in 1..Len(calcs) :
          /\ calcs[a].process = "XspectraCoreWorkChain"
          /\ calcs[b].process = "XspectraCoreWorkChain"
          /\ AbsorbingElement(calcs[a].structure) = S_O
          /\ AbsorbingElement(calcs[b].structure) = S_Si
          /\ calcs[a].scf_parameters.SYSTEM[S_treatment] = "xch_smear"
          /\ calcs[a].scf_parameters.SYSTEM[StartingMagnetization(3)] = 1
          /\ calcs[a].scf_parameters.SYSTEM[StartingMagnetization(2)] = 0
          /\ calcs[b].scf_parameters.SYSTEM[S_treatment] = "half"
          /\ ~Has(calcs[b].scf_parameters.SYSTEM, StartingMagnetization(3))

----------------------------------------------------------------------------
(* The relax stage of the crystal work chain. *)

RelaxCalcs == {pk \in 1..Len(calcs) : calcs[pk].process = "PwRelaxWorkChain"}

\* The steps of the outline that follow the relax stage
AfterRelaxStage ==
    {"get_xspectra_structures", "crystal_run_upf2plotcore",
     "inspect_upf2plotcore", "run_all_xspectra_core",
     "inspect_all_xspectra_core", "crystal_results"}

\* The symmetry analysis has run: its data is an output of the work chain
SymmetryAnalysisDone == Has(out, "symmetry_analysis_data")

C31_RelaxStage ==
    /\ RelaxCalcs # {} => inputs.has_relax /\ RelaxCalcs = {1}
    /\ pc \in AfterRelaxStage \/ SymmetryAnalysisDone =>
           (RelaxCalcs # {} <=> inputs.has_relax)
    /\ inputs.has_relax /\ SymmetryAnalysisDone =>
           /\ is_finished_ok(calcs[1])
           /\ calcs[1].structure = inputs.structure
           /\ out.supercell_structure.supercell_of =
                  calcs[1].outputs.output_structure
           /\ out.supercell_structure.supercell_of # inputs.structure
           /\ Has(out, "optimized_structure")
           /\ out.optimized_structure = calcs[1].outputs.output_structure
    /\ /\ RelaxCalcs # {}
       /\ is_finished(calcs[1])
       /\ ~is_finished_ok(calcs[1])
       /\ pc # "inspect_relax"
       => /\ pc = "terminated"
          /\ exit_code = "ERROR_SUB_PROCESS_FAILED_RELAX"
          /\ Len(calcs) = 1
          /\ ~SymmetryAnalysisDone
          /\ ~Has(out, "optimized_structure")
    /\ ~inputs.has_relax =>
           /\ ~Has(out, "optimized_structure")
           /\ SymmetryAnalysisDone =>
                  out.supercell_structure.supercell_of = inputs.structure

\* C31: the relax stage runs if and only if the relax inputs are given.
\* When it succeeds the symmetry analysis takes the relaxed structure and
\* optimized_structure is an output; when it fails the work chain ends with
\* ERROR_SUB_PROCESS_FAILED_RELAX before the symmetry analysis and before
\* any other submission, an exit code that no later step replaces; when it
\* is skipped the symmetry analysis takes the input structure and
\* optimized_structure is never an output.
C31_RelaxIffGiven ==
    /\ []C31_RelaxStage
    /\ [][exit_code = "ERROR_SUB_PROCESS_FAILED_RELAX" =>
              /\ exit_code' = exit_code
              /\ calcs' = calcs
              /\ out' = out]_vars

\* The relaxation has succeeded and the symmetry analysis has taken the
\* relaxed structure.
C31_Witness ==
    /\ inputs.has_relax
    /\ SymmetryAnalysisDone
    /\ out.optimized_structure.relaxed
    /\ out.supercell_structure.supercell_of = out.optimized_structure

----------------------------------------------------------------------------
(* The extraction jobs of the crystal work chain, for structures with      *)
(* several kinds of one element.                                           *)

\* Silicon with two kinds, Si and Si1, of the element Si
SharedSymbolKinds == <<Kind(S_Si, S_Si), Kind(S_Si1, S_Si)>>

SharedSymbolInputs ==
    LET given == {i \in CrystalInputs({1}, {S_X}, {TRUE}) :
                     ~i.return_all_powder_spectra}
    IN given \cup
       {[i EXCEPT !.structure = Structure(SharedSymbolKinds, 1, sites)] :
           i \in given, sites \in SiteLists(SharedSymbolKinds)}

SharedSymbolInit ==
    /\ CrystalInit!2
    /\ CrystalInit!3
    /\ CrystalInit!4
    /\ CrystalInit!5
    /\ CrystalInit!6
    /\ CrystalInit!7
    /\ CrystalInit!8
    /\ CrystalInit!9
    /\ inputs \in SharedSymbolInputs

SharedSymbolSpec == SharedSymbolInit /\ [][CrystalNext]_vars

\* The extraction jobs have been submitted
ExtractionSubmitted ==
    pc \in {"inspect_upf2plotcore", "run_all_xspectra_core",
            "inspect_all_xspectra_core", "crystal_results"}

\* C32: run_upf2plotcore submits exactly one extraction job for each
\* distinct absorbing element, also when the element list comes from the
\* kinds of the structure, and binds each context key upf2plotcore_<element>
\* to that job.
C32_OneExtractionPerElement ==
    ExtractionSubmitted =>
        /\ \A i \in 1..Len(ctx.elements_list) :
               /\ Cardinality({pk \in ShellJobs :
                      calcs[pk].label = ShellJobLabel(ctx.elements_list[i])}) = 1
               /\ ctx.nodes[ShellJobLabel(ctx.elements_list[i])] \in ShellJobs
        /\ \A pk \in ShellJobs :
               \E i \in 1..Len(ctx.elements_list) :
                   ctx.nodes[ShellJobLabel(ctx.elements_list[i])] = pk

----------------------------------------------------------------------------
(* The use of the output of the extraction jobs. *)

\* The extraction job whose stdout a process was given as core_wfc_data:
\* none when the data is an input of the work chain
ExtractionJobsUsedBy(pk) ==
    IF calcs[pk].process \in {"xs_prod", "xs_plot"}
    THEN IF calcs[pk].core_wfc_data = "upf2plotcore_node.outputs.stdout"
         THEN {ctx.upf2plotcore_node} ELSE {}
    ELSE IF calcs[pk].process = "XspectraCoreWorkChain"
    THEN {calcs[pk].core_wfc_data}
    ELSE {}

\* C33: the stdout of an extraction job is handed as core_wfc_data to a
\* production job, a replot or a XspectraCoreWorkChain only when the
\* extraction job finished OK; where it failed the work chain has ended
\* with an exit code instead.
C33_ExtractionVerifiedBeforeUse ==
    \A pk \in 1..Len(calcs) :
        \A job \in ExtractionJobsUsedBy(pk) : is_finished_ok(calcs[job])

----------------------------------------------------------------------------
(* get_powder_spectrum on every non-empty set of basis labels. *)

\* C34: for every non-empty subset of {eps_100, eps_010, eps_001} given as
\* the labels of its spectra, get_powder_spectrum returns a powder spectrum
\* and raises nothing.
C34_PowderIsTotal ==
    Len(powder_out) = 1 /\ DOMAIN WithoutMetadata(powder_in) # {} =>
        /\ powder_out[1].raised = ""
        /\ powder_out[1].y_name = "sigma"
        /\ DOMAIN powder_out[1].y = 1..GridLen

----------------------------------------------------------------------------
(* get_core_hole_inputs: the parameters of a PwCalculation for a core-hole *)
(* treatment.  A dictionary is a function of its keys.  parameters.copy()  *)
(* copies the outer dictionary only, so updated_parameters['SYSTEM'] is    *)
(* the SYSTEM dictionary of the caller, and starting_mag is the            *)
(* starting_magnetization dictionary of the caller until the name is bound *)
(* to a new dictionary.  Charges are counted in halves of the elementary   *)
(* charge, so that tot_charge += 0.5 adds 1.                               *)

\* The result of a call: the exception raised, the dictionary returned, and
\* the parameters of the caller after the call
CallResult(raised, returned, parameters) ==
    [raised |-> raised, returned |-> returned, parameters |-> parameters]

\* _process_afm_system: the exception raised, or final_starting_mag and
\* tot_mag.  has_tot_mag tells that tot_mag is not None.
process_afm_system(structure, equivalent_sites_data, starting_mag, has_tot_mag, tot_mag, abs_atom_marker, kwargs, treatment) ==
    LET marked == {i \in 1..Len(structure.sites) :
                      structure.sites[i].kind_name = abs_atom_marker}
        search == ~Has(kwargs, "site_index") \/ kwargs.site_index = 0
        bound == ~search \/ marked # {}
        target_site_index ==
            IF search
            THEN (CHOOSE i \in marked : \A j \in marked : i <= j) - 1
            ELSE kwargs.site_index
        matches == {i \in 1..Len(equivalent_sites_data) :
                       equivalent_sites_data[i].site_index = target_site_index}
        target_site_kind ==
            equivalent_sites_data[CHOOSE i \in matches :
                                      \A j \in matches : j <= i].kind_name
        target_site_mag == starting_mag[target_site_kind]
        failed(exception) ==
            [raised |-> exception, starting_mag |-> starting_mag, tot_mag |-> tot_mag]
    IN IF ~bound
       THEN failed("UnboundLocalError")
       ELSE IF \E i \in matches :
                   ~Has(starting_mag, equivalent_sites_data[i].kind_name)
       THEN failed("KeyError")
       ELSE IF matches = {}
       THEN failed("UnboundLocalError")
       ELSE IF treatment \notin {"full", "FCH"} /\ ~has_tot_mag
       THEN failed("TypeError")
       ELSE [raised |-> "",
             starting_mag |-> Put(starting_mag, abs_atom_marker, target_site_mag),
             tot_mag |-> IF treatment \in {"full", "FCH"} THEN tot_mag
                         ELSE IF target_site_mag > 0 THEN tot_mag + 1
                         ELSE tot_mag - 1]

\* A half core hole that adds a whole charge
tot_charge_added_HalfAsFull(treatment) ==
    IF treatment \in {"FCH", "full", "HCH", "half"} THEN 2 ELSE 0

\* What the treatment adds to tot_charge, in half charges
tot_charge_added(treatment) ==
    IF treatment \in {"FCH", "full"} THEN 2
    ELSE IF treatment \in {"HCH", "half"} THEN 1
    ELSE 0

get_core_hole_inputs(structure, treatment, equivalent_sites_data, parameters, kwargs) ==
    LET abs_atom_marker == IF Has(kwargs, "abs_atom_marker")
                           THEN kwargs.abs_atom_marker ELSE "X"
        SYSTEM == parameters.SYSTEM
        has_mag == Has(SYSTEM, "starting_magnetization")
        starting_mag == IF has_mag THEN SYSTEM.starting_magnetization ELSE NULL
        has_tot_mag == Has(SYSTEM, "tot_magnetization")
        tot_mag == IF has_tot_mag THEN SYSTEM.tot_magnetization ELSE 0
        tot_charge == (IF Has(SYSTEM, "tot_charge") THEN SYSTEM.tot_charge ELSE 0)
                          + tot_charge_added(treatment)
        truthy == has_mag /\ DOMAIN starting_mag # {}
        system_afm == /\ truthy
                      /\ \E k \in DOMAIN starting_mag : starting_mag[k] > 0
                      /\ \E k \in DOMAIN starting_mag : starting_mag[k] < 0
        \* where the treatment branch ends: the exception raised, the SYSTEM
        \* dictionary, and what the names starting_mag and tot_mag hold
        at(raised, system, mag, mag_total) ==
            [raised |-> raised, SYSTEM |-> system, starting_mag |-> mag,
             tot_mag |-> mag_total]
        \* starting_mag[abs_atom_marker] = 1 on the dictionary of the caller
        marked == Put(starting_mag, abs_atom_marker, 1)
        afm == process_afm_system(structure, equivalent_sites_data, starting_mag,
                                  has_tot_mag, tot_mag, abs_atom_marker, kwargs,
                                  treatment)
        through_afm == at(afm.raised, SYSTEM, afm.starting_mag, afm.tot_mag)
        branch ==
            IF treatment \in {"FCH", "full"}
            THEN IF ~truthy THEN at("", SYSTEM, starting_mag, tot_mag)
                 ELSE IF system_afm THEN through_afm
                 ELSE at("", Put(SYSTEM, "starting_magnetization", marked),
                         marked, tot_mag)
            ELSE IF treatment \in {"HCH", "half"}
            THEN IF ~truthy THEN at("", SYSTEM, starting_mag, tot_mag)
                 ELSE at("", Put(SYSTEM, "starting_magnetization", marked),
                         marked, tot_mag)
            ELSE IF treatment \in {"XCH", "xch_fixed", "xch_smear"}
            THEN IF system_afm THEN through_afm
                 ELSE IF ~Has(SYSTEM, "nspin")
                 THEN at("KeyError", SYSTEM, starting_mag, tot_mag)
                 ELSE IF SYSTEM.nspin = 2
                 THEN IF ~has_mag
                      THEN at("TypeError", SYSTEM, starting_mag, tot_mag)
                      ELSE at(IF has_tot_mag THEN "" ELSE "TypeError",
                              Put(SYSTEM, "starting_magnetization", marked),
                              marked, tot_mag + 1)
                 ELSE LET fixed == \/ treatment = "xch_fixed"
                                   \/ /\ Has(SYSTEM, "occupations")
                                      /\ SYSTEM.occupations = "fixed"
                      IN at(IF fixed /\ ~has_tot_mag THEN "TypeError" ELSE "",
                            Put(SYSTEM, "nspin", 2),
                            abs_atom_marker :> 1,
                            IF fixed THEN tot_mag + 1 ELSE tot_mag)
            ELSE at("", SYSTEM, starting_mag, tot_mag)
        charged == IF tot_charge > 0
                   THEN Put(branch.SYSTEM, "tot_charge", tot_charge)
                   ELSE branch.SYSTEM
        spin_polarised == Has(charged, "nspin") /\ charged.nspin = 2
        magnetised == IF spin_polarised
                      THEN Put(charged, "starting_magnetization", branch.starting_mag)
                      ELSE charged
        final == IF spin_polarised /\ has_tot_mag /\ branch.tot_mag # 0
                 THEN Put(magnetised, "tot_magnetization", branch.tot_mag)
                 ELSE magnetised
    IN IF branch.raised # ""
       THEN CallResult(branch.raised, EmptyDict,
                       [parameters EXCEPT !.SYSTEM = branch.SYSTEM])
       ELSE CallResult("", [parameters EXCEPT !.SYSTEM = final],
                       [parameters EXCEPT !.SYSTEM = final])

Treatments ==
    {"FCH", "full", "HCH", "half", "XCH", "xch_fixed", "xch_smear", "none"}

\* The SYSTEM namelists the function is called with: each key given or not
SystemNamelists ==
    {nspin @@ charge @@ total @@ occupations @@ magnetization :
        nspin \in {EmptyDict} \cup {"nspin" :> n : n \in {1, 2}},
        charge \in {EmptyDict} \cup {"tot_charge" :> c : c \in {-2, -1, 1}},
        total \in {EmptyDict} \cup {"tot_magnetization" :> m : m \in {0, 1}},
        occupations \in {EmptyDict, "occupations" :> "fixed"},
        magnetization \in {EmptyDict} \cup
            {"starting_magnetization" :> mag :
                mag \in {EmptyDict, "Fe1" :> 1,
                         ("Fe1" :> 1) @@ ("Fe2" :> -1)}}}

\* The calls of get_core_hole_inputs: iron with two kinds and an absorbing
\* atom of the kind X, or without one
CoreHoleCalls ==
    [structure : {[sites |-> <<[kind_name |-> "Fe1"], [kind_name |-> "X"]>>],
                  [sites |-> <<[kind_name |-> "Fe1"], [kind_name |-> "Fe2"]>>]},
     treatment : Treatments,
     equivalent_sites_data :
         {<<>>,
          <<[site_index |-> 0, kind_name |-> "Fe1"],
            [site_index |-> 1, kind_name |-> "Fe2"]>>},
     parameters : [SYSTEM : SystemNamelists],
     kwargs : {EmptyDict, "site_index" :> 0,
               ("site_index" :> 1) @@ ("abs_atom_marker" :> "X")}]

CoreHoleInit ==
    /\ inputs \in CoreHoleCalls
    /\ pc = "get_core_hole_inputs"
    /\ ctx = [nodes |-> EmptyDict]
    /\ calcs = <<>>
    /\ out = EmptyDict
    /\ reports = {}
    /\ exit_code = "none"
    /\ powder_in = EmptyDict
    /\ powder_out = <<>>

call_get_core_hole_inputs ==
    /\ pc = "get_core_hole_inputs"
    /\ out' = get_core_hole_inputs(inputs.structure, inputs.treatment,
                                   inputs.equivalent_sites_data,
                                   inputs.parameters, inputs.kwargs)
    /\ pc' = "called"
    /\ UNCHANGED <<inputs, ctx, calcs, reports, exit_code, fn_vars>>

CoreHoleSpec == CoreHoleInit /\ [][call_get_core_hole_inputs]_vars

\* C35: after a call of get_core_hole_inputs the parameters of the caller,
\* with the SYSTEM dictionary and the starting_magnetization dictionary in
\* it, hold what they held before the call.
C35_ParametersUnchanged ==
    pc = "called" =>
        /\ DOMAIN out.parameters.SYSTEM = DOMAIN inputs.parameters.SYSTEM
        /\ \A key \in DOMAIN inputs.parameters.SYSTEM :
               out.parameters.SYSTEM[key] = inputs.parameters.SYSTEM[key]

----------------------------------------------------------------------------
(* The total charge that get_core_hole_inputs returns. *)

\* tot_charge of the parameters given, in half charges: 0 when absent
GivenCharge ==
    IF "tot_charge" \in DOMAIN inputs.parameters.SYSTEM
    THEN inputs.parameters.SYSTEM["tot_charge"] ELSE 0

\* The charge with the core hole, in half charges: 2c + 2, 2c + 1 or 2c
ChargeWithCoreHole ==
    CASE inputs.treatment \in {"FCH", "full"} -> GivenCharge + 2
      [] inputs.treatment \in {"HCH", "half"} -> GivenCharge + 1
      [] inputs.treatment \in {"XCH", "xch_fixed", "xch_smear"} -> GivenCharge
      [] OTHER -> GivenCharge

\* C36: when get_core_hole_inputs returns, SYSTEM.tot_charge of the result
\* is the given charge plus 1 for 'FCH' and 'full', plus 1/2 for 'HCH' and
\* 'half', plus nothing for 'XCH', 'xch_fixed' and 'xch_smear', if that
\* charge is greater than 0; otherwise tot_charge is not written and the
\* result holds what the parameters given held.
C36_ChargeAdjustedByTreatment ==
    pc = "called" /\ out.raised = "" =>
        LET system == out.returned.SYSTEM
            given == inputs.parameters.SYSTEM
        IN IF ChargeWithCoreHole > 0
           THEN /\ "tot_charge" \in DOMAIN system
                /\ system["tot_charge"] = ChargeWithCoreHole
           ELSE /\ "tot_charge" \in DOMAIN system <=> "tot_charge" \in DOMAIN given
                /\ "tot_charge" \in DOMAIN system =>
                       system["tot_charge"] = given["tot_charge"]

\* A half core hole on a system with half a charge gives one charge.
C36_Witness ==
    /\ pc = "called"
    /\ out.raised = ""
    /\ inputs.treatment = "half"
    /\ GivenCharge = 1
    /\ out.returned.SYSTEM["tot_charge"] = 2

----------------------------------------------------------------------------
(* XspectraCalculation.prepare_for_submission: the files to copy and to    *)
(* retrieve, and the settings that are left over.                          *)

Spectrum_FILENAME == "xanes.dat"

default_namelists == <<"INPUT_XSPECTRA", "PLOT", "PSEUDOS", "CUT_OCC">>

internal_retrieve_list == <<Spectrum_FILENAME>>

\* The subfolders of NamelistsCalculation
INPUT_SUBFOLDER == "_INPUT_SUBFOLDER"

OUTPUT_SUBFOLDER == "_OUTPUT_SUBFOLDER"

\* dict.pop(key): the dictionary without the key
Pop(d, key) == [k \in (DOMAIN d) \ {key} |-> d[k]]

\* dict.pop(key, default): the value popped
Popped(d, key, default) == IF Has(d, key) THEN d[key] ELSE default

\* key.upper(), for the keys of the settings of the model
Upper(key) ==
    IF key = "parent_folder_symlink" THEN "PARENT_FOLDER_SYMLINK" ELSE key

\* _uppercase_dict: the dictionary with its keys in upper case
uppercase_dict(d) ==
    [K \in {Upper(k) : k \in DOMAIN d} |->
        d[CHOOSE k \in DOMAIN d : Upper(k) = K]]

\* _pop_parser_options: the settings without the options of the parser
pop_parser_options(settings) == Pop(settings, "PARSER_OPTIONS")

\* The parent folder put in the symlink list and in the copy list
ParentFolderLists_CopyAndSymlink(symlink, parent_calc_folder, parent_calc_out_subfolder) ==
    LET entry == <<parent_calc_folder.computer,
                   <<parent_calc_folder.remote_path, parent_calc_out_subfolder>>,
                   OUTPUT_SUBFOLDER>>
    IN IF parent_calc_folder.type = "RemoteData"
       THEN [remote_copy_list |-> <<entry>>, remote_symlink_list |-> <<entry>>,
             local_copy_list |-> <<>>]
       ELSE [remote_copy_list |-> <<>>, remote_symlink_list |-> <<>>,
             local_copy_list |->
                 [i \in 1..Len(parent_calc_folder.object_names) |->
                     <<parent_calc_folder.uuid, parent_calc_folder.object_names[i],
                       <<OUTPUT_SUBFOLDER, parent_calc_folder.object_names[i]>>>>]]

\* The three lists after the parent folder has been looked at: a RemoteData
\* is appended to ptr, the files of a FolderData to local_copy_list
ParentFolderLists(symlink, parent_calc_folder, parent_calc_out_subfolder) ==
    LET entry == <<parent_calc_folder.computer,
                   <<parent_calc_folder.remote_path, parent_calc_out_subfolder>>,
                   OUTPUT_SUBFOLDER>>
    IN IF parent_calc_folder.type = "RemoteData"
       THEN [remote_copy_list |-> IF symlink THEN <<>> ELSE <<entry>>,
             remote_symlink_list |-> IF symlink THEN <<entry>> ELSE <<>>,
             local_copy_list |-> <<>>]
       ELSE [remote_copy_list |-> <<>>, remote_symlink_list |-> <<>>,
             local_copy_list |->
                 [i \in 1..Len(parent_calc_folder.object_names) |->
                     <<parent_calc_folder.uuid, parent_calc_folder.object_names[i],
                       <<OUTPUT_SUBFOLDER, parent_calc_folder.object_names[i]>>>>]]

\* The exception raised or the CalcInfo returned, and the files written to
\* the sandbox folder
prepare_for_submission(calc) ==
    LET settings == IF Has(calc, "settings") THEN uppercase_dict(calc.settings)
                    ELSE EmptyDict
        namelists_given == Has(settings, "NAMELISTS")
        namelists_toprint == IF namelists_given /\ Has(settings.NAMELISTS, "list")
                             THEN settings.NAMELISTS.list
                             ELSE default_namelists
        after_namelists == Pop(settings, "NAMELISTS")
        folder == {calc.options.input_filename}
        symlink == Popped(after_namelists, "PARENT_FOLDER_SYMLINK", FALSE)
        after_symlink == Pop(after_namelists, "PARENT_FOLDER_SYMLINK")
        parent_calc_folder == calc.parent_folder
        remote == parent_calc_folder.type = "RemoteData"
        parent_calc_out_subfolder ==
            Popped(after_symlink, "PARENT_CALC_OUT_SUBFOLDER", INPUT_SUBFOLDER)
        after_parent == IF remote THEN Pop(after_symlink, "PARENT_CALC_OUT_SUBFOLDER")
                        ELSE after_symlink
        lists == ParentFolderLists(symlink, parent_calc_folder,
                                   parent_calc_out_subfolder)
        core_file == calc.core_wfc_data
        core_file_info == <<core_file.uuid, core_file.filename, core_file.filename>>
        codeinfo == [cmdline_params |-> Popped(after_parent, "CMDLINE", <<>>),
                     stdin_name |-> calc.options.input_filename,
                     stdout_name |-> calc.options.output_filename]
        after_cmdline == Pop(after_parent, "CMDLINE")
        retrieve_list ==
            <<calc.options.output_filename>> \o
            Popped(after_cmdline, "ADDITIONAL_RETRIEVE_LIST", <<>>) \o
            internal_retrieve_list
        after_retrieve == Pop(after_cmdline, "ADDITIONAL_RETRIEVE_LIST")
        left == pop_parser_options(after_retrieve)
        calcinfo == [codes_info |-> <<codeinfo>>,
                     local_copy_list |-> Append(lists.local_copy_list, core_file_info),
                     remote_copy_list |-> lists.remote_copy_list,
                     remote_symlink_list |-> lists.remote_symlink_list,
                     retrieve_list |-> retrieve_list,
                     retrieve_temporary_list |-> <<>>,
                     retrieve_singlefile_list |-> <<>>]
    IN IF namelists_given /\ ~Has(settings.NAMELISTS, "list")
       THEN [raised |-> "InputValidationError", calcinfo |-> EmptyDict,
             folder |-> {}, namelists |-> <<>>]
       ELSE IF DOMAIN left # {}
       THEN [raised |-> "InputValidationError", calcinfo |-> EmptyDict,
             folder |-> folder, namelists |-> namelists_toprint]
       ELSE [raised |-> "", calcinfo |-> calcinfo, folder |-> folder,
             namelists |-> namelists_toprint]

\* The settings a caller may give: each key given or not
SettingsDicts ==
    {symlink @@ namelists @@ subfolder @@ cmdline @@ additional @@ parser @@ other :
        symlink \in {EmptyDict, "PARENT_FOLDER_SYMLINK" :> TRUE,
                     "PARENT_FOLDER_SYMLINK" :> FALSE,
                     "parent_folder_symlink" :> TRUE},
        namelists \in {EmptyDict, "NAMELISTS" :> [list |-> <<"INPUT_XSPECTRA">>],
                       "NAMELISTS" :> [str |-> "INPUT_XSPECTRA"]},
        subfolder \in {EmptyDict, "PARENT_CALC_OUT_SUBFOLDER" :> "./"},
        cmdline \in {EmptyDict, "CMDLINE" :> <<"-nk", "2">>},
        additional \in {EmptyDict, "ADDITIONAL_RETRIEVE_LIST" :> <<"extra.dat">>},
        parser \in {EmptyDict, "PARSER_OPTIONS" :> [include_deprecated |-> TRUE]},
        other \in {EmptyDict, "UNEXPECTED" :> TRUE}}

\* The XspectraCalculations that are prepared: the parent folder is a
\* RemoteData or a FolderData
XspectraCalculations ==
    LET without_settings ==
            [process_class : {"XspectraCalculation"},
             parent_folder :
                 {[type |-> "RemoteData", computer |-> "computer",
                   remote_path |-> "/scratch/scf", uuid |-> "parent",
                   object_names |-> <<>>]} \cup
                 {[type |-> "FolderData", computer |-> "", remote_path |-> "",
                   uuid |-> "parent", object_names |-> names] :
                      names \in {<<>>, <<"data-file-schema.xml", "charge-density.dat">>}},
             core_wfc_data : {[uuid |-> "core", filename |-> "stdout"]},
             options : {[input_filename |-> "aiida.in",
                         output_filename |-> "aiida.out"]}]
    IN without_settings \cup
       {Put(calc, "settings", settings) :
           calc \in without_settings, settings \in SettingsDicts}

PrepareInit ==
    /\ inputs \in XspectraCalculations
    /\ pc = "prepare_for_submission"
    /\ ctx = [nodes |-> EmptyDict]
    /\ calcs = <<>>
    /\ out = EmptyDict
    /\ reports = {}
    /\ exit_code = "none"
    /\ powder_in = EmptyDict
    /\ powder_out = <<>>

call_prepare_for_submission ==
    /\ pc = "prepare_for_submission"
    /\ out' = prepare_for_submission(inputs)
    /\ pc' = "prepared"
    /\ UNCHANGED <<inputs, ctx, calcs, reports, exit_code, fn_vars>>

PrepareSpec == PrepareInit /\ [][call_prepare_for_submission]_vars

\* The keys of the settings given, in upper case
SettingsKeys ==
    IF "settings" \in DOMAIN inputs
    THEN {Upper(k) : k \in DOMAIN inputs.settings} ELSE {}

\* The keys that prepare_for_submission consumes
RecognisedKeys ==
    {"NAMELISTS", "PARENT_FOLDER_SYMLINK", "CMDLINE",
     "ADDITIONAL_RETRIEVE_LIST", "PARSER_OPTIONS"} \cup
    IF inputs.parent_folder.type = "RemoteData"
    THEN {"PARENT_CALC_OUT_SUBFOLDER"} ELSE {}

\* The setting PARENT_FOLDER_SYMLINK is given and true
SymlinkAsked ==
    \E k \in IF "settings" \in DOMAIN inputs THEN DOMAIN inputs.settings ELSE {} :
        Upper(k) = "PARENT_FOLDER_SYMLINK" /\ inputs.settings[k]

\* C37: a CalcInfo returned by prepare_for_submission has a RemoteData
\* parent folder in remote_symlink_list alone when PARENT_FOLDER_SYMLINK is
\* true and in remote_copy_list alone otherwise, has the core wavefunction
\* file in local_copy_list, and has the output file and xanes.dat in the
\* retrieve list; with a settings key left after the recognised ones are
\* consumed the call raises InputValidationError and returns no CalcInfo.
C37_CalcInfoLists ==
    pc = "prepared" =>
        /\ ~(SettingsKeys \subseteq RecognisedKeys) =>
               out.raised = "InputValidationError"
        /\ out.raised = "" =>
               /\ inputs.parent_folder.type = "RemoteData" =>
                      /\ Len(out.calcinfo.remote_symlink_list)
                             = (IF SymlinkAsked THEN 1 ELSE 0)
                      /\ Len(out.calcinfo.remote_copy_list)
                             = (IF SymlinkAsked THEN 0 ELSE 1)
               /\ inputs.parent_folder.type # "RemoteData" =>
                      /\ Len(out.calcinfo.remote_symlink_list) = 0
                      /\ Len(out.calcinfo.remote_copy_list) = 0
               /\ In(<<"core", "stdout", "stdout">>,
                        out.calcinfo.local_copy_list)
               /\ In("aiida.out", out.calcinfo.retrieve_list)
               /\ In("xanes.dat", out.calcinfo.retrieve_list)

\* A RemoteData parent folder with the setting in lower case: the folder is
\* in the symlink list alone.
C37_Witness ==
    /\ pc = "prepared"
    /\ out.raised = ""
    /\ inputs.parent_folder.type = "RemoteData"
    /\ "settings" \in DOMAIN inputs
    /\ "parent_folder_symlink" \in DOMAIN inputs.settings
    /\ "ADDITIONAL_RETRIEVE_LIST" \in DOMAIN inputs.settings
    /\ Len(out.calcinfo.remote_symlink_list) = 1
    /\ Len(out.calcinfo.remote_copy_list) = 0
    /\ out.calcinfo.retrieve_list = <<"aiida.out", "extra.dat", "xanes.dat">>

====
